---- MODULE Spec2Model ----
(***************************************************************************)
(* timescaledb-backup: the dump orchestrator (DoDump) and the background   *)
(* Job Mover (compressionJobMover) of pkg/dump, with the job table of the  *)
(* database they act on; and the restore sequencer (DoRestore) of          *)
(* pkg/restore, with the dump directory it reads and the target database.  *)
(*                                                                         *)
(* Time is counted in whole minutes.  The two goroutines talk over the two *)
(* unbuffered channels jobsStopped and cleanup: a send and its receive are *)
(* one joint step, enabled only when both sides stand at the statement.    *)
(***************************************************************************)
EXTENDS Integers, FiniteSets, Sequences, TLC

VARIABLES
    cf,             \* util.Config of this invocation
    tsMajorVersion, \* major version of the installed extension
    db,             \* job id -> next_start of the job (NegInf while it executes)
    now,            \* wall clock, minutes
    d_pc,           \* DoDump: statement the orchestrator stands at
    d_err,          \* DoDump: the error it returns ("nil" for none)
    deferred,       \* DoDump: compressionJobMoverStop is on the defer stack
    timerStart,     \* DoDump: time the wait timer was created
    calls,          \* DoDump: external effects so far, in order
    m_pc,           \* Job Mover: statement the goroutine stands at
    sql,            \* Job Mover: result of compressionJobMoverSQL
    movedJobs,      \* Job Mover: the ledger, job id -> original next_start
    runningJobs,    \* Job Mover: the runningJobs flag
    todo,           \* Job Mover: ledger entries the cleanup range has not visited
    tickPending,    \* Job Mover: a tick waits in ticker.C
    hist,           \* history of the run, read by the properties only
    tsSchema,       \* schema the extension is installed in, database being dumped
    infoFile,       \* the dump directory and its timescaleVersionInfo.json
    rev,            \* revision of restore.go that runs
    rcf,            \* util.Config of the restore invocation
    target,         \* the database being restored into
    r_pc,           \* DoRestore: statement it stands at
    r_err,          \* DoRestore: the error it returns ("nil" for none)
    r_deferred,     \* DoRestore: postRestoreTimescale is on the defer stack
    tsInfo,         \* DoRestore: the decoded util.TsInfo
    rcalls,         \* DoRestore: operations issued so far, in order
    rhist,          \* history of the restore, read by the properties only
    run,            \* RunCommandAndFilterOutput: its arguments, locals and result
    proc,           \* the subprocess: its state, what it has yet to write
    pipes,          \* the stdout and stderr pipes of the subprocess
    sink            \* the writer given as stdout: its buffer and what is behind it

vars == <<cf, tsMajorVersion, db, now, d_pc, d_err, deferred, timerStart, calls,
          m_pc, sql, movedJobs, runningJobs, todo, tickPending, hist,
          tsSchema, infoFile, rev, rcf, target, r_pc, r_err, r_deferred,
          tsInfo, rcalls, rhist, run, proc, pipes, sink>>

\* ---------------------------------------------------------------- bounds
NumJobs == 2
MaxTime == 6
TimeStep == 3             \* the clock is read every TimeStep minutes
JobPeriod == 3 
FirstStart == 3           \* next_start of a job that is due at the outset
LongTimeout == 120        \* a positive --dump-job-finish-timeout, in seconds
MaxVersion == 3           \* installed major versions 0..MaxVersion
MaxInfoVersion == 1       \* metadata-format versions 0..MaxInfoVersion
MaxTargetVersion == 2     \* extension versions 1..MaxTargetVersion of a restore
MaxLines == 3             \* lines a subprocess writes to its standard output
MaxErrLines == 1          \* lines a subprocess writes to its standard error
PipeCap == 1              \* lines a pipe holds before a write to it blocks
BufSize == 8              \* bytes a bufio.Writer holds (4096, scaled down)
MaxScanTokenSize == 40    \* longest line of a bufio.Scanner (64 KiB, scaled down)

\* ------------------------------------------------------ program constants
NegInf == -1              \* '-infinity': smaller than every time
DangerWindow == 10        \* next_start < now()+'10 min'
MoveBase == 15            \* now() + ('15 min' + ...
RandomSpan == 5           \* ... random()*'5 min'::interval), random() in [0, 1)
SecondsPerMinute == 60
DefaultJobs == 4          \* --jobs default
NumPasses == 4            \* restore.go 342-370: pre-data, catalog data, other data, post-data
NoWaitTimeout == -1       \* --dump-job-finish-timeout=-1

JobIds == 1..NumJobs

\* random()*'5 min' at minute granularity: both ends of [0, 5)
RandomOffsets == {0, RandomSpan - 1}

JobType(j) ==
    CASE j % 3 = 1 -> "compress"
      [] j % 3 = 2 -> "uda"
      [] OTHER     -> "reorder"

AllConfigs ==
    [DumpPauseJobs : BOOLEAN, Jobs : {0, DefaultJobs}, DumpPauseUDAs : BOOLEAN,
     DumpJobFinishTimeout : {NoWaitTimeout, 0, LongTimeout},
     DumpRoles : BOOLEAN, DumpTablespaces : BOOLEAN]

\* DumpPauseUDAs and DumpJobFinishTimeout are read only when the mover is
\* started: the configurations that do not start it carry the defaults.  The
\* roles and tablespaces dumps never touch the mover: the configurations
\* that start it dump both or neither
Configs ==
    {c \in AllConfigs :
        (c.DumpPauseJobs /\ c.Jobs > 0 /\ c.DumpRoles = c.DumpTablespaces) \/
        (~(c.DumpPauseJobs /\ c.Jobs > 0) /\
            c.DumpPauseUDAs /\ c.DumpJobFinishTimeout = LongTimeout)}

\* ------------------------------------------------- compressionJobMoverSQL
EmptySQL == [stmt |-> "", api |-> "", types |-> {}]

JobWhere_withUDAs(pauseUDAs) == {"compress", "reorder", "uda"}

JobWhere(pauseUDAs) ==
    IF pauseUDAs THEN {"compress", "reorder", "uda"} ELSE {"compress", "reorder"}

compressionJobMoverSQL_v2plus(v, pauseUDAs) ==
    IF v = 1
    THEN [runningJobsSQL |-> [stmt |-> "running", api |-> "policy_stats",
                              types |-> {"compress", "reorder"}],
          moveSQL        |-> [stmt |-> "move", api |-> "alter_job_schedule",
                              types |-> {"compress", "reorder"}],
          replaceJobSQL  |-> [stmt |-> "replace", api |-> "alter_job_schedule",
                              types |-> {}],
          err            |-> "nil"]
    ELSE [runningJobsSQL |-> [stmt |-> "running", api |-> "job_stats",
                              types |-> JobWhere(pauseUDAs)],
          moveSQL        |-> [stmt |-> "move", api |-> "alter_job",
                              types |-> JobWhere(pauseUDAs)],
          replaceJobSQL  |-> [stmt |-> "replace", api |-> "alter_job",
                              types |-> {}],
          err            |-> "nil"]

compressionJobMoverSQL(v, pauseUDAs) ==
    IF v = 1
    THEN [runningJobsSQL |-> [stmt |-> "running", api |-> "policy_stats",
                              types |-> {"compress", "reorder"}],
          moveSQL        |-> [stmt |-> "move", api |-> "alter_job_schedule",
                              types |-> {"compress", "reorder"}],
          replaceJobSQL  |-> [stmt |-> "replace", api |-> "alter_job_schedule",
                              types |-> {}],
          err            |-> "nil"]
    ELSE IF v = 2
    THEN [runningJobsSQL |-> [stmt |-> "running", api |-> "job_stats",
                              types |-> JobWhere(pauseUDAs)],
          moveSQL        |-> [stmt |-> "move", api |-> "alter_job",
                              types |-> JobWhere(pauseUDAs)],
          replaceJobSQL  |-> [stmt |-> "replace", api |-> "alter_job",
                              types |-> {}],
          err            |-> "nil"]
    ELSE [runningJobsSQL |-> EmptySQL, moveSQL |-> EmptySQL,
          replaceJobSQL |-> EmptySQL,
          err |-> "unknown Timescale major version"]

\* the three query variables before compressionJobMoverSQL has run
NoSQL == [runningJobsSQL |-> EmptySQL, moveSQL |-> EmptySQL,
          replaceJobSQL |-> EmptySQL, err |-> "nil"]

\* ------------------------------------------------------- the SQL, on db
\* a job the queries take as currently executing: next_start = '-infinity'
Flagged(nextStart) == nextStart = NegInf

\* rows of runningJobsSQL: the monitored jobs flagged as executing
RunningRows(q, jobs) ==
    {j \in JobIds : JobType(j) \in q.types /\ Flagged(jobs[j])}

\* rows of moveSQL: the monitored jobs, not executing, due within the window
MoveRows_overdueOnly(q, jobs, t) ==
    {j \in JobIds : /\ JobType(j) \in q.types
                    /\ ~Flagged(jobs[j])
                    /\ jobs[j] < t}

MoveRows(q, jobs, t) ==
    {j \in JobIds : /\ JobType(j) \in q.types
                    /\ ~Flagged(jobs[j])
                    /\ jobs[j] < t + DangerWindow}

\* next_start=> now()+ ('15 min' + random()*'5 min'::interval)
MoveTarget_late(t, r) == t + MoveBase + MoveBase + r

MoveTarget(t, r) == t + MoveBase + r

\* CASE WHEN $2 > now() THEN $2 ELSE now() + random()*'5 min' END
ReplaceTarget(origStart, t, r) ==
    IF origStart > t THEN origStart ELSE t + r

\* ------------------------------------------------------ the mover's parts
\* if _, ok := movedJobs[jobID]; !ok { movedJobs[jobID] = origStart }
RecordMoved_overwrite(ledger, jobID, origStart) ==
    [j \in DOMAIN ledger \cup {jobID} |->
        IF j = jobID THEN origStart ELSE ledger[j]]

RecordMoved(ledger, jobID, origStart) ==
    IF jobID \in DOMAIN ledger
    THEN ledger
    ELSE [j \in DOMAIN ledger \cup {jobID} |->
            IF j = jobID THEN origStart ELSE ledger[j]]

\* the rows.Next() loop over the rows of one move query
RECURSIVE ScanRows(_, _, _)
ScanRows(ledger, rows, jobs) ==
    IF rows = {} THEN ledger
    ELSE LET j == CHOOSE x \in rows : TRUE
         IN  ScanRows(RecordMoved(ledger, j, jobs[j]), rows \ {j}, jobs)

\* the flag after the probe: cleared when the probe returned no row
RunningAfterProbe_stuck(noRows) == TRUE

RunningAfterProbe(noRows) == IF noRows THEN FALSE ELSE TRUE

\* line 228: after detection-and-move the probe runs while runningJobs is set
AfterMove_noProbe(running) == "select"

AfterMove(running) == IF running THEN "probe" ELSE "select"

\* lines 235-240: where the mover goes after the probe; it sends the
\* jobs-stopped signal only when the probe returned pgx.ErrNoRows
AfterProbe_always(noRows) == "sendStopped"

AfterProbe(noRows) == IF noRows THEN "sendStopped" ELSE "select"

\* wg.Wait() returns once the mover has run wg.Done()
WaitGroupDone_nowait(mpc) == TRUE

WaitGroupDone(mpc) == mpc = "exited"

\* the timer of DoDump has fired
TimerFired(start, t, timeout) == (t - start) * SecondsPerMinute >= timeout

\* the timeout arm of DoDump's select: return the error
OnTimeout_continue == [pc |-> "lookPath", err |-> "nil"]

OnTimeout == [pc |-> "return", err |-> "timed out waiting for jobs"]

\* a return statement of DoDump: the deferred compressionJobMoverStop runs first
AfterReturn(def) == IF def THEN "stopSend" ELSE "returned"

NoHist ==
    [stopSignals |-> 0, probeAfterStop |-> FALSE, probeSkipped |-> FALSE,
     redetected |-> FALSE, moverSet |-> <<>>, ledgerAtCleanup |-> {},
     attempted |-> {}, lastReplay |-> <<>>, aborted |-> FALSE,
     cleanupRan |-> FALSE, timedOut |-> FALSE, timedOutIdle |-> FALSE,
     crashed |-> FALSE, queried |-> FALSE]

\* ------------------------------------------- util.TsInfo and its JSON file
Schemas == {"public", "ts"}

\* extversion of an extension of major version v
VersionString(v) == ToString(v) \o ".7.1"

\* util.TsInfo{}: TsInfoVersion is never set, DoDump writes the zero value
ZeroTsInfo == [TsInfoVersion |-> 0, TsVersion |-> "", TsSchema |-> ""]

InfoVersions == 0..MaxInfoVersion

\* the row (e.extversion, n.nspname) of the database being dumped; q says
\* whether the connection and the query went through
getTimescaleInfo(q, v, s) ==
    IF q = "ok"
    THEN [info |-> [TsInfoVersion |-> 0, TsVersion |-> VersionString(v),
                    TsSchema |-> s],
          err  |-> "nil"]
    ELSE [info |-> ZeroTsInfo, err |-> q]

\* the dump directory: absent, without its info file, or with the file; a
\* JSON object is the set of its <<key, type, text>> members
NoDir == [kind |-> "nodir", obj |-> {}]
NoFile == [kind |-> "nofile", obj |-> {}]
EmptyFile == [kind |-> "empty", obj |-> {}]
GarbageFile == [kind |-> "garbage", obj |-> {}]

\* json.NewEncoder(file).Encode(&tsInfo)
Encode(info) ==
    [kind |-> "json",
     obj  |-> {<<"TsInfoVersion", "num", ToString(info.TsInfoVersion)>>,
               <<"TsVersion", "str", info.TsVersion>>,
               <<"TsSchema", "str", info.TsSchema>>}]

ParseInt(text) == CHOOSE n \in InfoVersions : ToString(n) = text

\* one struct field of the decode: a missing key leaves the zero value, a
\* value of the wrong JSON type is an error
JSONField(obj, key, type, zero) ==
    IF \E m \in obj : m[1] = key
    THEN LET m == CHOOSE x \in obj : x[1] = key
         IN  IF m[2] = type THEN [val |-> m[3], ok |-> TRUE]
                            ELSE [val |-> zero, ok |-> FALSE]
    ELSE [val |-> zero, ok |-> TRUE]

\* json.NewDecoder(file).Decode(&tsInfo)
Decode_lenient(file) ==
    LET iv == JSONField(file.obj, "TsInfoVersion", "num", "0")
        tv == JSONField(file.obj, "TsVersion", "str", "")
        ts == JSONField(file.obj, "TsSchema", "str", "")
    IN  [info |-> [TsInfoVersion |-> ParseInt(iv.val), TsVersion |-> tv.val,
                   TsSchema |-> ts.val],
         err  |-> "nil"]

Decode(file) ==
    LET iv == JSONField(file.obj, "TsInfoVersion", "num", "0")
        tv == JSONField(file.obj, "TsVersion", "str", "")
        ts == JSONField(file.obj, "TsSchema", "str", "")
    IN  IF file.kind = "json" /\ iv.ok /\ tv.ok /\ ts.ok
        THEN [info |-> [TsInfoVersion |-> ParseInt(iv.val), TsVersion |-> tv.val,
                        TsSchema |-> ts.val],
              err  |-> "nil"]
        ELSE [info |-> ZeroTsInfo, err |-> "failed to decode tsInfo JSON"]

parseInfoFile(file) ==
    IF file.kind \in {"nodir", "nofile"}
    THEN [info |-> ZeroTsInfo, err |-> "failed to open version file"]
    ELSE Decode(file)

\* ------------------------------------------------ the target database
NoExt == [TsVersion |-> "", TsSchema |-> ""]

TargetVersions == 1..MaxTargetVersion

Exts == [TsVersion : {VersionString(v) : v \in TargetVersions}, TsSchema : Schemas]

\* versions the target installation can create
AvailableVersions(t) == {VersionString(v) : v \in 1..t.defaultVersion}

\* DROP EXTENSION IF EXISTS timescaledb
DropExtension(t) == [t EXCEPT !.ext = NoExt]

\* CREATE EXTENSION IF NOT EXISTS timescaledb WITH SCHEMA s VERSION 'v'
CreateExtension(t, s, v) ==
    IF s \notin Schemas \/ v \notin AvailableVersions(t)
    THEN [target |-> t, err |-> "Error creating extension in correct schema and at correct version"]
    ELSE IF t.ext # NoExt
    THEN [target |-> t, err |-> "nil"]
    ELSE [target |-> [t EXCEPT !.ext = [TsVersion |-> v, TsSchema |-> s]],
          err |-> "nil"]

\* ALTER EXTENSION timescaledb UPDATE
UpdateExtension(t) ==
    IF t.ext = NoExt
    THEN [target |-> t, err |-> "failed to update extension version"]
    ELSE [target |-> [t EXCEPT !.ext.TsVersion = VersionString(t.defaultVersion)],
          err |-> "nil"]

NoRHist ==
    [preHook |-> "none", postCalls |-> 0, hookQueries |-> 0, postErr |-> "nil",
     interfered |-> FALSE, extAtReturn |-> NoExt, updateSeen |-> "none"]

\* ------------------------------------------- util.RunCommandAndFilterOutput
\* the filter makeRestoreTOC passes
ExtensionComment == "COMMENT - EXTENSION timescaledb"

\* time.Now().Format("2006/01/02 15:04:05 ")
Stamp == "2006/01/02 15:04:05 "

\* a line no bufio.Scanner returns: longer than its largest buffer
LongLine == "0123456789012345678901234567890123456789012345"

\* strings.Contains
Contains(s, sub) ==
    \E i \in 1..(Len(s) - Len(sub) + 1) : SubSeq(s, i, i + Len(sub) - 1) = sub

\* bufio.Writer.Write on a writer that nobody flushes: buf is what the writer
\* holds, dst what has reached the file behind it
RECURSIVE BufWrite(_, _)
BufWrite(w, p) ==
    IF Len(p) > BufSize - Len(w.buf)
    THEN IF w.buf = ""
         THEN [w EXCEPT !.dst = @ \o p]
         ELSE LET n == BufSize - Len(w.buf)
              IN  BufWrite([w EXCEPT !.buf = "", !.dst = @ \o w.buf \o SubSeq(p, 1, n)],
                           SubSeq(p, n + 1, Len(p)))
    ELSE [w EXCEPT !.buf = @ \o p]

\* Write on the writer given as stdout: a bufio.Writer over the TOC file
\* (makeRestoreTOC) or os.Stdout itself (the passes, pg_dump)
Write(w, p) == IF w.kind = "bufio" THEN BufWrite(w, p) ELSE [w EXCEPT !.dst = @ \o p]

\* writeAndFilterOutput, lines 251-265: what one scanned line becomes
ScanStep(line, filters) ==
    IF Len(line) > MaxScanTokenSize THEN "tooLong"
    ELSE IF \E f \in filters : Contains(line, f) THEN "filtered"
    ELSE "forward"

\* fmt.Fprintln(scanOut, [time +] scanIn.Text())
Forward(line, prependTime) == (IF prependTime THEN Stamp ELSE "") \o line \o "\n"

\* lines 238-245: the error RunCommandAndFilterOutput returns after cmd.Wait()
RunResult(code, errStdout, errStderr) ==
    IF code # 0 THEN "cmd.Run() failed"
    ELSE IF errStdout # "nil" \/ errStderr # "nil" THEN "failed to capture output"
    ELSE "nil"

NoRun ==
    [pc |-> "idle", gpc |-> "none", caller |-> "none", prependTime |-> FALSE,
     filters |-> {}, errStdout |-> "nil", errStderr |-> "nil", err |-> "nil",
     started |-> FALSE, readFailed |-> FALSE, forwardFailed |-> FALSE,
     listing |-> <<>>, pass |-> 0, orphans |-> 0]

NoProc == [state |-> "none", out |-> <<>>, err |-> <<>>, code |-> 0]

NoPipes == [out |-> <<>>, err |-> <<>>]

NoSink == [kind |-> "file", buf |-> "", dst |-> ""]

\* no command is being run
RunIdle ==
    /\ run = NoRun
    /\ proc = NoProc
    /\ pipes = NoPipes
    /\ sink = NoSink

\* ------------------------------------------------------------------ Init
\* ts-restore has not been invoked
RestoreNotStarted ==
    /\ r_pc = "notStarted"
    /\ r_err = "nil"
    /\ r_deferred = FALSE
    /\ tsInfo = ZeroTsInfo
    /\ rcalls = <<>>
    /\ rhist = NoRHist

Init ==
    /\ cf \in Configs
    /\ tsMajorVersion \in IF cf.DumpPauseJobs /\ cf.Jobs > 0 THEN 0..MaxVersion ELSE {2}
    /\ db \in [JobIds -> {NegInf, FirstStart}]
    /\ now = 0
    /\ d_pc = "start"
    /\ d_err = "nil"
    /\ deferred = FALSE
    /\ timerStart = 0
    /\ calls = <<>>
    /\ m_pc = "notStarted"
    /\ sql = NoSQL
    /\ movedJobs = <<>>
    /\ runningJobs = TRUE
    /\ todo = {}
    /\ tickPending = FALSE
    /\ hist = NoHist
    /\ tsSchema = "public"
    /\ infoFile = NoDir
    /\ rev = 2
    /\ rcf = [DoUpdate |-> FALSE, Jobs |-> DefaultJobs]
    /\ target = [ext |-> NoExt, restoring |-> FALSE, defaultVersion |-> 1]
    /\ RestoreNotStarted
    /\ RunIdle

\* --------------------------------------------------------------- DoDump
dvars == <<d_pc, d_err, deferred, timerStart, calls>>
mvars == <<m_pc, sql, movedJobs, runningJobs, todo, tickPending>>
envvars == <<cf, tsMajorVersion, db, now>>
rvars == <<rev, rcf, target, r_pc, r_err, r_deferred, tsInfo, rcalls, rhist>>
cmdvars == <<run, proc, pipes, sink>>

\* line 27: the condition under which DoDump starts the mover
StartsMover_wheneverPausing(c) == c.DumpPauseJobs

StartsMover(c) == c.DumpPauseJobs /\ c.Jobs > 0

\* lines 24-33: start the mover, register the deferred stop, create the timer
DumpStart ==
    /\ d_pc = "start"
    /\ IF StartsMover(cf)
       THEN /\ m_pc' = "connect"
            /\ deferred' = TRUE
            /\ timerStart' = now
            /\ d_pc' = IF cf.DumpJobFinishTimeout >= 0 THEN "wait" ELSE "lookPath"
       ELSE /\ d_pc' = "lookPath"
            /\ UNCHANGED <<m_pc, deferred, timerStart>>
    /\ UNCHANGED <<d_err, calls, sql, movedJobs, runningJobs, todo, tickPending,
                   hist, envvars>>
    /\ UNCHANGED <<tsSchema, infoFile, rvars, cmdvars>>

\* lines 37-38: the timer arm of the select
DumpWaitTimeout ==
    /\ d_pc = "wait"
    /\ TimerFired(timerStart, now, cf.DumpJobFinishTimeout)
    /\ d_err' = OnTimeout.err
    /\ d_pc' = IF OnTimeout.pc = "return" THEN AfterReturn(deferred) ELSE OnTimeout.pc
    /\ timerStart' = 0
    /\ hist' = [hist EXCEPT !.timedOut = TRUE,
                            !.timedOutIdle = hist.aborted /\
                                \A j \in JobIds : ~Flagged(db[j])]
    /\ UNCHANGED <<deferred, calls, mvars, envvars>>
    /\ UNCHANGED <<tsSchema, infoFile, rvars, cmdvars>>

\* lines 35-36 with line 239: jobsStopped <- true meets <-jobsStopped
JobsStoppedHandoff ==
    /\ d_pc = "wait"
    /\ m_pc = "sendStopped"
    /\ d_pc' = "lookPath"
    /\ m_pc' = "select"
    /\ timerStart' = 0
    /\ UNCHANGED <<d_err, deferred, calls, sql, movedJobs, runningJobs,
                   todo, tickPending, hist, envvars>>
    /\ UNCHANGED <<tsSchema, infoFile, rvars, cmdvars>>

\* createInfoFile, lines 105-112: os.Mkdir fails on a directory that is there,
\* os.Create runs only after it succeeded; mk and cr say whether the file
\* system lets the two calls through
createInfoFile_overwrite(dir, mk, cr) ==
    IF ~mk THEN [dir |-> dir, calls |-> <<>>, err |-> "mkdir failed"]
    ELSE IF ~cr THEN [dir |-> NoFile, calls |-> <<"mkdir">>, err |-> "create failed"]
    ELSE [dir |-> EmptyFile, calls |-> <<"mkdir", "create info file">>, err |-> "nil"]

createInfoFile(dir, mk, cr) ==
    IF dir # NoDir \/ ~mk
    THEN [dir |-> dir, calls |-> <<>>, err |-> "mkdir failed"]
    ELSE IF ~cr
    THEN [dir |-> NoFile, calls |-> <<"mkdir">>, err |-> "create failed"]
    ELSE [dir |-> EmptyFile, calls |-> <<"mkdir", "create info file">>, err |-> "nil"]

\* lines 42-57: locate pg_dump, print its version, create the dump directory
\* and the empty info file
DumpCreateInfoFile ==
    /\ d_pc = "lookPath"
    /\ \/ /\ d_pc' = AfterReturn(deferred)
          /\ d_err' = "pg_dump not found"
          /\ UNCHANGED <<calls, infoFile>>
       \/ \E mk \in BOOLEAN, cr \in BOOLEAN :
             LET c == createInfoFile(infoFile, mk, cr)
             IN  /\ infoFile' = c.dir
                 /\ calls' = calls \o <<"pg_dump --version">> \o c.calls
                 /\ d_err' = IF c.err = "nil" THEN d_err
                             ELSE "error with dump file creation"
                 /\ d_pc' = IF c.err = "nil" THEN "writeInfo"
                            ELSE AfterReturn(deferred)
    /\ UNCHANGED <<deferred, timerStart, mvars, hist, envvars>>
    /\ UNCHANGED <<tsSchema, rvars, cmdvars>>

\* lines 68, 77 and 86: the phase after phase k (0 the info file, 1 the roles
\* dump, 2 the tablespaces dump)
NextPhase_always(c, k) ==
    IF k = 0 THEN "roles" ELSE IF k = 1 THEN "tablespaces" ELSE "pg_dump"

NextPhase(c, k) ==
    IF k = 0 /\ c.DumpRoles THEN "roles"
    ELSE IF k <= 1 /\ c.DumpTablespaces THEN "tablespaces"
    ELSE "pg_dump"

\* lines 59-64 and 145-162: the error of getTimescaleInfo is overwritten by
\* Encode's, the info it returned is written whatever that error was
DumpWriteInfo ==
    /\ d_pc = "writeInfo"
    /\ \/ /\ d_pc' = NextPhase(cf, 0)
          /\ calls' = Append(calls, "write info")
          /\ \E q \in {"ok", "TimescaleDB extension not found"} :
                infoFile' = Encode(getTimescaleInfo(q, tsMajorVersion, tsSchema).info)
          /\ UNCHANGED d_err
       \/ /\ d_pc' = AfterReturn(deferred)
          /\ d_err' = "Error writing Timescale info"
          /\ UNCHANGED <<calls, infoFile>>
    /\ UNCHANGED <<deferred, timerStart, mvars, hist, envvars>>
    /\ UNCHANGED <<tsSchema, rvars, cmdvars>>

\* lines 68-76
DumpRoles ==
    /\ d_pc = "roles"
    /\ \/ /\ d_pc' = NextPhase(cf, 1)
          /\ calls' = Append(calls, "pg_dumpall roles")
          /\ UNCHANGED d_err
       \/ /\ d_pc' = AfterReturn(deferred)
          /\ d_err' = "Error dumping roles"
          /\ calls' = Append(calls, "pg_dumpall roles")
    /\ UNCHANGED <<deferred, timerStart, mvars, hist, envvars>>
    /\ UNCHANGED <<tsSchema, infoFile, rvars, cmdvars>>

\* lines 77-85
DumpTablespaces ==
    /\ d_pc = "tablespaces"
    /\ \/ /\ d_pc' = NextPhase(cf, 2)
          /\ calls' = Append(calls, "pg_dumpall tablespaces")
          /\ UNCHANGED d_err
       \/ /\ d_pc' = AfterReturn(deferred)
          /\ d_err' = "Error dumping tablespaces"
          /\ calls' = Append(calls, "pg_dumpall tablespaces")
    /\ UNCHANGED <<deferred, timerStart, mvars, hist, envvars>>
    /\ UNCHANGED <<tsSchema, infoFile, rvars, cmdvars>>

\* lines 86-102
DumpPgDump ==
    /\ d_pc = "pg_dump"
    /\ calls' = Append(calls, "pg_dump")
    /\ d_pc' = AfterReturn(deferred)
    /\ \E e \in {"nil", "pg_dump run failed"} : d_err' = e
    /\ UNCHANGED <<deferred, timerStart, mvars, hist, envvars>>
    /\ UNCHANGED <<tsSchema, infoFile, rvars, cmdvars>>

\* line 272 with line 248: cleanup <- true meets <-cleanup
CleanupHandoff ==
    /\ d_pc = "stopSend"
    /\ m_pc = "select"
    /\ d_pc' = "wgWait"
    /\ m_pc' = "cleanup"
    /\ todo' = DOMAIN movedJobs
    /\ hist' = [hist EXCEPT !.cleanupRan = TRUE, !.ledgerAtCleanup = DOMAIN movedJobs]
    /\ UNCHANGED <<d_err, deferred, timerStart, calls, sql, movedJobs, runningJobs,
                   tickPending, envvars>>
    /\ UNCHANGED <<tsSchema, infoFile, rvars, cmdvars>>

\* line 273, then DoDump returns to its caller
DumpWgWait ==
    /\ d_pc = "wgWait"
    /\ WaitGroupDone(m_pc)
    /\ d_pc' = "returned"
    /\ UNCHANGED <<d_err, deferred, timerStart, calls, mvars, hist, envvars>>
    /\ UNCHANGED <<tsSchema, infoFile, rvars, cmdvars>>

\* ------------------------------------------------------ compressionJobMover
\* return: the deferred wg.Done() runs and the goroutine's locals are gone
MoverReturn ==
    /\ m_pc' = "exited"
    /\ movedJobs' = <<>>
    /\ runningJobs' = TRUE
    /\ todo' = {}
    /\ tickPending' = FALSE

\* compressionJobMoverWarn(err); return
MoverAbort ==
    /\ MoverReturn
    /\ hist' = [hist EXCEPT !.aborted = TRUE]

\* lines 186-192: create the ticker, open the connection
MoverConnect ==
    /\ m_pc = "connect"
    /\ \/ /\ m_pc' = "version"
          /\ UNCHANGED <<movedJobs, runningJobs, todo, tickPending, hist>>
       \/ MoverAbort
    /\ UNCHANGED <<sql, dvars, envvars>>
    /\ UNCHANGED <<tsSchema, infoFile, rvars, cmdvars>>

\* lines 193-203: read the major version, select the SQL dialect
MoverVersion ==
    /\ m_pc = "version"
    /\ \/ /\ sql' = compressionJobMoverSQL(tsMajorVersion, cf.DumpPauseUDAs)
          /\ IF sql'.err # "nil"
             THEN MoverAbort
             ELSE /\ m_pc' = "move"
                  /\ UNCHANGED <<movedJobs, runningJobs, todo, tickPending, hist>>
       \/ /\ MoverAbort
          /\ UNCHANGED sql
    /\ UNCHANGED <<dvars, envvars>>
    /\ UNCHANGED <<tsSchema, infoFile, rvars, cmdvars>>

\* lines 206-227: the move query and the scan of its rows
MoverMove ==
    /\ m_pc = "move"
    /\ \/ /\ MoverAbort
          /\ UNCHANGED db
       \/ LET rows == MoveRows(sql.moveSQL, db, now)
          IN  \E r \in [rows -> RandomOffsets] :
                /\ db' = [j \in JobIds |->
                            IF j \in rows THEN MoveTarget(now, r[j]) ELSE db[j]]
                /\ \/ /\ movedJobs' = ScanRows(movedJobs, rows, db)
                      /\ m_pc' = AfterMove(runningJobs)
                      /\ hist' = [hist EXCEPT
                            !.queried = TRUE,
                            !.redetected = @ \/ \E j \in rows \cap DOMAIN movedJobs :
                                                    db[j] # movedJobs[j],
                            !.probeSkipped = @ \/ (~runningJobs /\
                                RunningRows(sql.runningJobsSQL, db') # {}),
                            !.moverSet = [j \in DOMAIN @ \cup rows |->
                                            IF j \in rows THEN now ELSE @[j]]]
                      /\ UNCHANGED <<runningJobs, todo, tickPending>>
                   \/ /\ rows # {}
                      /\ MoverReturn
                      /\ hist' = [hist EXCEPT
                            !.aborted = TRUE,
                            !.queried = TRUE,
                            !.moverSet = [j \in DOMAIN @ \cup rows |->
                                            IF j \in rows THEN now ELSE @[j]]]
    /\ UNCHANGED <<sql, dvars, cf, tsMajorVersion, now>>
    /\ UNCHANGED <<tsSchema, infoFile, rvars, cmdvars>>

\* lines 228-246: the running-jobs probe
MoverProbe ==
    /\ m_pc = "probe"
    /\ \/ MoverAbort
       \/ LET noRows == RunningRows(sql.runningJobsSQL, db) = {}
          IN  /\ runningJobs' = RunningAfterProbe(noRows)
              /\ m_pc' = AfterProbe(noRows)
              /\ hist' = [hist EXCEPT
                    !.queried = TRUE,
                    !.probeAfterStop = @ \/ hist.stopSignals > 0,
                    !.stopSignals = IF noRows /\ @ < 2 THEN @ + 1 ELSE @]
              /\ UNCHANGED <<movedJobs, todo, tickPending>>
    /\ UNCHANGED <<sql, dvars, envvars>>
    /\ UNCHANGED <<tsSchema, infoFile, rvars, cmdvars>>

\* lines 261-262: the ticker arm of the select
MoverTick ==
    /\ m_pc = "select"
    /\ tickPending
    /\ tickPending' = FALSE
    /\ m_pc' = "move"
    /\ UNCHANGED <<sql, movedJobs, runningJobs, todo, hist, dvars, envvars>>
    /\ UNCHANGED <<tsSchema, infoFile, rvars, cmdvars>>

\* lines 250-259: one iteration of the range over movedJobs.  The replace
\* query is a SELECT without FROM: it yields its one row or an error, so the
\* pgx.ErrNoRows the code lets pass is not an outcome
MoverReplace ==
    /\ m_pc = "cleanup"
    /\ \E j \in todo :
        \/ \E r \in RandomOffsets :
             /\ db' = [db EXCEPT ![j] = ReplaceTarget(movedJobs[j], now, r)]
             /\ todo' = todo \ {j}
             /\ hist' = [hist EXCEPT
                   !.queried = TRUE,
                   !.attempted = @ \cup {j},
                   !.lastReplay = <<movedJobs[j], now, db'[j]>>,
                   !.moverSet = [k \in DOMAIN @ \cup {j} |->
                                   IF k = j THEN now ELSE @[k]]]
             /\ UNCHANGED <<m_pc, movedJobs, runningJobs, tickPending>>
        \/ /\ MoverReturn
           /\ hist' = [hist EXCEPT !.aborted = TRUE, !.queried = TRUE,
                                   !.attempted = @ \cup {j}]
           /\ UNCHANGED db
    /\ UNCHANGED <<sql, dvars, cf, tsMajorVersion, now>>
    /\ UNCHANGED <<tsSchema, infoFile, rvars, cmdvars>>

\* line 260: the range is over, return
MoverCleanupDone ==
    /\ m_pc = "cleanup"
    /\ todo = {}
    /\ MoverReturn
    /\ UNCHANGED <<sql, hist, dvars, envvars>>
    /\ UNCHANGED <<tsSchema, infoFile, rvars, cmdvars>>

\* ---------------------------------------------------------- environment
\* the clock; the ticker of a live mover leaves a tick in its channel
AdvanceTime ==
    /\ now + TimeStep <= MaxTime
    /\ now' = now + TimeStep
    /\ tickPending' = (m_pc \notin {"notStarted", "exited", "crashed"})
    /\ UNCHANGED <<cf, tsMajorVersion, db, dvars, m_pc, sql, movedJobs,
                   runningJobs, todo, hist>>
    /\ UNCHANGED <<tsSchema, infoFile, rvars, cmdvars>>

\* the database scheduler starts a job that is due
StartJob(j) ==
    /\ ~Flagged(db[j])
    /\ db[j] <= now
    /\ db' = [db EXCEPT ![j] = NegInf]
    /\ hist' = [hist EXCEPT !.moverSet = [k \in DOMAIN @ \ {j} |-> @[k]]]
    /\ UNCHANGED <<cf, tsMajorVersion, now, dvars, mvars>>
    /\ UNCHANGED <<tsSchema, infoFile, rvars, cmdvars>>

\* an executing job finishes and is scheduled one period ahead
FinishJob(j) ==
    /\ Flagged(db[j])
    /\ db' = [db EXCEPT ![j] = now + JobPeriod]
    /\ UNCHANGED <<cf, tsMajorVersion, now, dvars, mvars, hist>>
    /\ UNCHANGED <<tsSchema, infoFile, rvars, cmdvars>>

\* the process dies, both goroutines and their memory with it
Crash ==
    /\ d_pc \notin {"returned", "crashed"}
    /\ d_pc' = "crashed"
    /\ m_pc' = IF m_pc = "notStarted" THEN m_pc ELSE "crashed"
    /\ d_err' = "nil"
    /\ deferred' = FALSE
    /\ timerStart' = 0
    /\ sql' = NoSQL
    /\ movedJobs' = <<>>
    /\ runningJobs' = TRUE
    /\ todo' = {}
    /\ tickPending' = FALSE
    /\ hist' = [hist EXCEPT !.crashed = TRUE]
    /\ UNCHANGED <<calls, envvars>>
    /\ UNCHANGED <<tsSchema, infoFile, rvars, cmdvars>>

\* ---------------------------------------------------------- DoRestore
rlocals == <<r_pc, r_err, r_deferred, tsInfo, rcalls, rhist>>
dumpside == <<cf, tsMajorVersion, db, now, dvars, mvars, hist, tsSchema, infoFile>>

\* a statement on a connection, and a subprocess with its arguments
Call(op) == [op |-> op, args |-> <<>>]
Cmd(args) == [op |-> "exec", args |-> args]

\* fmt.Errorf("<label>: %w", err)
Wrap(label, err) == label \o ": " \o err

\* a return statement of DoRestore: the deferred postRestoreTimescale runs first
RestoreReturn_noDefer(def) == "returned"

RestoreReturn(def) == IF def THEN "postRestore" ELSE "returned"

\* lines 295-298 and 429-443: read and decode the info file
RestoreParseInfo ==
    /\ r_pc = "notStarted"
    /\ d_pc \in {"returned", "crashed"}
    /\ LET p == parseInfoFile(infoFile)
       IN  /\ tsInfo' = p.info
           /\ r_err' = p.err
           /\ r_pc' = IF p.err = "nil" THEN "dropExt" ELSE RestoreReturn(r_deferred)
    /\ UNCHANGED <<r_deferred, rcalls, rhist, rev, rcf, target, dumpside, cmdvars>>

\* util.CreateTimescaleAtVer, first connection: DROP EXTENSION IF EXISTS
RestoreDropExt ==
    /\ r_pc = "dropExt"
    /\ \/ /\ target' = DropExtension(target)
          /\ rcalls' = rcalls \o <<Call("open"), Call("DROP EXTENSION"), Call("close")>>
          /\ r_pc' = "createExt"
          /\ UNCHANGED r_err
       \/ /\ r_err' = "connection failed"
          /\ r_pc' = RestoreReturn(r_deferred)
          /\ UNCHANGED <<target, rcalls>>
       \/ /\ r_err' = "Error dropping old extension version"
          /\ rcalls' = rcalls \o <<Call("open"), Call("DROP EXTENSION"), Call("close")>>
          /\ r_pc' = RestoreReturn(r_deferred)
          /\ UNCHANGED target
    /\ UNCHANGED <<r_deferred, tsInfo, rhist, rev, rcf, dumpside, cmdvars>>

\* the statement with the schema and the version it names
CreateStmt(s, v) == [op |-> "CREATE EXTENSION", args |-> <<s, v>>]

\* util.CreateTimescaleAtVer, second connection: CREATE EXTENSION IF NOT EXISTS
RestoreCreateExt ==
    /\ r_pc = "createExt"
    /\ \/ LET c == CreateExtension(target, tsInfo.TsSchema, tsInfo.TsVersion)
          IN  /\ target' = c.target
              /\ r_err' = c.err
              /\ rcalls' = rcalls \o
                    (IF c.err = "nil"
                     THEN <<Call("open"), CreateStmt(tsInfo.TsSchema, tsInfo.TsVersion)>>
                     ELSE <<Call("open"), CreateStmt(tsInfo.TsSchema, tsInfo.TsVersion),
                            Call("close")>>)
              /\ r_pc' = IF c.err = "nil" THEN "confirmExt"
                         ELSE RestoreReturn(r_deferred)
       \/ /\ r_err' = "connection failed"
          /\ r_pc' = RestoreReturn(r_deferred)
          /\ UNCHANGED <<target, rcalls>>
    /\ UNCHANGED <<r_deferred, tsInfo, rhist, rev, rcf, dumpside, cmdvars>>

\* the read-back of util.CreateTimescaleAtVer
ConfirmExtension_presentOnly(ext, targetSchema, targetVersion) ==
    IF ext = NoExt
    THEN "Could not confirm creation of TimescaleDB extension"
    ELSE "nil"

ConfirmExtension(ext, targetSchema, targetVersion) ==
    IF ext = NoExt
    THEN "Could not confirm creation of TimescaleDB extension"
    ELSE IF ext.TsSchema # targetSchema \/ ext.TsVersion # targetVersion
    THEN "TimescaleDB extension created in incorrect schema or at incorrect version, please drop the extension and restart the restore"
    ELSE "nil"

\* util.CreateTimescaleAtVer: confirm that worked correctly
RestoreConfirmExt ==
    /\ r_pc = "confirmExt"
    /\ \E e \in {ConfirmExtension(target.ext, tsInfo.TsSchema, tsInfo.TsVersion),
                 "query failed"} :
          /\ r_err' = e
          /\ r_pc' = IF e = "nil" THEN "preHook" ELSE RestoreReturn(r_deferred)
    /\ rcalls' = rcalls \o <<Call("read extension"), Call("close")>>
    /\ UNCHANGED <<r_deferred, tsInfo, rhist, rev, rcf, target, dumpside, cmdvars>>

\* lines 299-304: the defer statement is reached when preRestoreTimescale
\* has returned nil
DeferReached_always(err) == TRUE

DeferReached(err) == err = "nil"

\* lines 452-467 and 304: the pre-restore hook; on success the post-restore
\* step goes on the defer stack
RestorePreHook ==
    /\ r_pc = "preHook"
    /\ \/ /\ target' = [target EXCEPT !.restoring = TRUE]
          /\ rcalls' = rcalls \o
                <<Call("open"), Call("timescaledb_pre_restore()"), Call("close")>>
          /\ r_pc' = "getRestoreVersion"
          /\ rhist' = [rhist EXCEPT !.preHook = "true"]
          /\ UNCHANGED r_err
       \/ /\ r_err' = "connection failed"
          /\ r_pc' = RestoreReturn(DeferReached(r_err'))
          /\ UNCHANGED <<target, rcalls, rhist>>
       \/ /\ \E pr \in {"error", "false"} :
                /\ r_err' = IF pr = "error" THEN "query failed"
                            ELSE "TimescaleDB pre restore function failed to run"
                /\ rhist' = [rhist EXCEPT !.preHook = pr]
          /\ \E b \in {target.restoring, TRUE} :
                target' = [target EXCEPT !.restoring = b]
          /\ rcalls' = rcalls \o
                <<Call("open"), Call("timescaledb_pre_restore()"), Call("close")>>
          /\ r_pc' = RestoreReturn(DeferReached(r_err'))
    /\ r_deferred' = DeferReached(r_err')
    /\ UNCHANGED <<tsInfo, rev, rcf, dumpside, cmdvars>>

\* lines 305-308 and 415-427: locate pg_restore, print its version
RestoreGetVersion ==
    /\ r_pc = "getRestoreVersion"
    /\ \/ /\ rcalls' = Append(rcalls, Cmd(<<"pg_restore", "--version">>))
          /\ r_pc' = "makeTOC"
          /\ UNCHANGED r_err
       \/ /\ r_err' = "could not find pg_restore"
          /\ r_pc' = RestoreReturn(r_deferred)
          /\ UNCHANGED rcalls
       \/ /\ r_err' = "failed to get version of pg_restore"
          /\ rcalls' = Append(rcalls, Cmd(<<"pg_restore", "--version">>))
          /\ r_pc' = RestoreReturn(r_deferred)
    /\ UNCHANGED <<r_deferred, tsInfo, rhist, rev, rcf, target, dumpside, cmdvars>>

\* lines 317-329 and 407-413: the temporary file and the filtered listing
RestoreMakeTOC ==
    /\ r_pc = "makeTOC"
    /\ \/ /\ rcalls' = Append(rcalls, Cmd(<<"pg_restore", "pgdump", "--list">>))
          /\ r_pc' = "preData"
          /\ UNCHANGED r_err
       \/ /\ r_err' = "pg_restore run failed while creating TOC file"
          /\ r_pc' = RestoreReturn(r_deferred)
          /\ UNCHANGED rcalls
       \/ /\ \E e \in {"pg_restore run failed while writing TOC file",
                       "pg_restore run failed while closing TOC file"} : r_err' = e
          /\ rcalls' = Append(rcalls, Cmd(<<"pg_restore", "pgdump", "--list">>))
          /\ r_pc' = RestoreReturn(r_deferred)
    /\ UNCHANGED <<r_deferred, tsInfo, rhist, rev, rcf, target, dumpside, cmdvars>>

\* lines 337-341 and 355-357: baseArgs as pass k finds it; --jobs is appended
\* after the second pass
BaseArgs_jobsFromStart(c, k) ==
    <<"--dbname", "--format=directory", "--use-list">> \o
    (IF c.Verbose THEN <<"--verbose">> ELSE <<>>) \o
    (IF c.Jobs > 0 THEN <<"--jobs=" \o ToString(c.Jobs)>> ELSE <<>>)

BaseArgs(c, k) ==
    <<"--dbname", "--format=directory", "--use-list">> \o
    (IF c.Verbose THEN <<"--verbose">> ELSE <<>>) \o
    (IF k > 2 /\ c.Jobs > 0 THEN <<"--jobs=" \o ToString(c.Jobs)>> ELSE <<>>)

\* the location of the dump has to be the last argument
getRestoreCmd(baseArgs, addlArgs) ==
    Cmd(<<"pg_restore">> \o baseArgs \o addlArgs \o <<"pgdump">>)

\* lines 343-370: the four passes, each with the statement it is run from,
\* its own arguments and the label of its error
RestorePasses_catalogOnly ==
    << [pc |-> "preData",
        addlArgs |-> <<"--section=pre-data", "--single-transaction">>,
        label |-> "pg_restore run failed in pre-data section"],
       [pc |-> "catalogData",
        addlArgs |-> <<"--section=data", "--schema=_timescaledb_catalog">>,
        label |-> "pg_restore run failed while restoring _timescaledb_catalog"],
       [pc |-> "otherData",
        addlArgs |-> <<"--section=data", "--exclude-schema=_timescaledb_catalog",
                       "--exclude-schema=_timescaledb_config">>,
        label |-> "pg_restore run failed while restoring user data"],
       [pc |-> "postData",
        addlArgs |-> <<"--section=post-data">>,
        label |-> "pg_restore run failed during post-data step"] >>

RestorePasses ==
    << [pc |-> "preData",
        addlArgs |-> <<"--section=pre-data", "--single-transaction">>,
        label |-> "pg_restore run failed in pre-data section"],
       [pc |-> "catalogData",
        addlArgs |-> <<"--section=data", "--schema=_timescaledb_catalog",
                       "--schema=_timescaledb_config">>,
        label |-> "pg_restore run failed while restoring _timescaledb_catalog"],
       [pc |-> "otherData",
        addlArgs |-> <<"--section=data", "--exclude-schema=_timescaledb_catalog",
                       "--exclude-schema=_timescaledb_config">>,
        label |-> "pg_restore run failed while restoring user data"],
       [pc |-> "postData",
        addlArgs |-> <<"--section=post-data">>,
        label |-> "pg_restore run failed during post-data step"] >>

\* line 373: if cf.DoUpdate, in the revision that has the update
UpdateWanted_always(c, rv) == rv = 2

UpdateWanted(c, rv) == rv = 2 /\ c.DoUpdate

\* the statement after pass k has succeeded
AfterPass_skipCatalog(k) ==
    IF k = 1 THEN [pc |-> "otherData", ret |-> FALSE]
    ELSE IF k < 4 THEN [pc |-> RestorePasses[k + 1].pc, ret |-> FALSE]
    ELSE IF UpdateWanted(rcf, rev) THEN [pc |-> "update", ret |-> FALSE]
    ELSE [pc |-> "return", ret |-> TRUE]

AfterPass(k) ==
    IF k < 4 THEN [pc |-> RestorePasses[k + 1].pc, ret |-> FALSE]
    ELSE IF UpdateWanted(rcf, rev) THEN [pc |-> "update", ret |-> FALSE]
    ELSE [pc |-> "return", ret |-> TRUE]

\* the whole of DoRestore after a failed pass: return the labelled error
OnPassFailure_goOn(k) == [AfterPass(k) EXCEPT !.ret = FALSE]

OnPassFailure(k) == [pc |-> "return", ret |-> TRUE]

\* util.RunCommandAndFilterOutput(restore, ...) of pass k and the test of its
\* error
RunPass(k) ==
    /\ r_pc = RestorePasses[k].pc
    /\ \/ /\ rcalls' = Append(rcalls,
                         getRestoreCmd(BaseArgs(rcf, k), RestorePasses[k].addlArgs))
          /\ r_pc' = IF AfterPass(k).ret THEN RestoreReturn(r_deferred)
                     ELSE AfterPass(k).pc
          /\ UNCHANGED r_err
       \/ /\ \E started \in BOOLEAN :
                /\ rcalls' = IF started
                             THEN Append(rcalls, getRestoreCmd(BaseArgs(rcf, k),
                                                   RestorePasses[k].addlArgs))
                             ELSE rcalls
                /\ r_err' = Wrap(RestorePasses[k].label,
                                 IF started THEN "cmd.Run() failed"
                                            ELSE "cmd.Start() failed")
          /\ r_pc' = IF OnPassFailure(k).ret THEN RestoreReturn(r_deferred)
                     ELSE OnPassFailure(k).pc
    /\ UNCHANGED <<r_deferred, tsInfo, rhist, rev, rcf, target, dumpside, cmdvars>>

RestorePreData == RunPass(1)

RestoreCatalogData == RunPass(2)

RestoreOtherData == RunPass(3)

RestorePostData == RunPass(4)

\* doUpdate, lines 508-517: installed_version = default_version, scanned
\* into a bool (a NULL installed_version does not scan)
UpdateVerified_unchecked(t) == "nil"

UpdateVerified(t) ==
    IF t.ext = NoExt THEN "query failed"
    ELSE IF t.ext.TsVersion # VersionString(t.defaultVersion)
    THEN "TimescaleDB extension was not updated to the default version"
    ELSE "nil"

\* lines 373-377 and 490-501: ALTER EXTENSION UPDATE on a connection of its
\* own, closed right after
RestoreUpdate ==
    /\ r_pc = "update"
    /\ \/ /\ r_err' = Wrap("pg_restore run failed while updating extension",
                           "connection failed")
          /\ r_pc' = RestoreReturn(r_deferred)
          /\ UNCHANGED <<target, rcalls>>
       \/ /\ \E u \in {UpdateExtension(target),
                       [target |-> target, err |-> "failed to update extension version"]} :
                /\ target' = u.target
                /\ r_err' = IF u.err = "nil" THEN r_err
                            ELSE Wrap("pg_restore run failed while updating extension",
                                      u.err)
                /\ r_pc' = IF u.err = "nil" THEN "updateVerify"
                           ELSE RestoreReturn(r_deferred)
          /\ rcalls' = rcalls \o
                <<Call("open"), Call("ALTER EXTENSION UPDATE"), Call("close")>>
    /\ UNCHANGED <<r_deferred, tsInfo, rhist, rev, rcf, dumpside, cmdvars>>

\* lines 502-517: a new connection, to confirm the update
RestoreUpdateVerify ==
    /\ r_pc = "updateVerify"
    /\ \/ /\ r_err' = Wrap("pg_restore run failed while updating extension",
                           "failed to connect after updating extension")
          /\ UNCHANGED <<rcalls, rhist>>
       \/ /\ \E e \in {UpdateVerified(target), "query failed"} :
                r_err' = IF e = "nil" THEN "nil"
                         ELSE Wrap("pg_restore run failed while updating extension", e)
          /\ rcalls' = rcalls \o
                <<Call("open"), Call("installed_version = default_version"),
                  Call("close")>>
          /\ rhist' = [rhist EXCEPT !.updateSeen =
                IF target.ext # NoExt /\
                   target.ext.TsVersion = VersionString(target.defaultVersion)
                THEN "default" ELSE "other"]
    /\ r_pc' = RestoreReturn(r_deferred)
    /\ UNCHANGED <<r_deferred, tsInfo, rev, rcf, target, dumpside, cmdvars>>

\* postRestoreTimescale: revision 2 (lines 470-488) runs the hook, revision 1
\* (lines 242-273) then reads the extension back and compares it
postRestoreTimescale(rv, connected, pr, ext, info) ==
    IF ~connected THEN "connection failed"
    ELSE IF pr = "error" THEN "query failed"
    ELSE IF pr = "false" THEN "post restore function failed"
    ELSE IF rv = 2 THEN "nil"
    ELSE IF ext = NoExt THEN "could not confirm creation of TimescaleDB extension"
    ELSE IF ext.TsSchema # info.TsSchema \/ ext.TsVersion # info.TsVersion
    THEN "TimescaleDB extension created in incorrect schema or at incorrect version, please drop the extension and restart the restore"
    ELSE "nil"

\* defer postRestoreTimescale(cf.DbURI, tsInfo): the value the deferred call
\* returns is dropped, DoRestore returns the err of its return statement
DoRestoreResult(err, postErr) == err

\* the deferred call, then DoRestore returns to its caller
RestorePostRestore ==
    /\ r_pc = "postRestore"
    /\ \E connected \in BOOLEAN, pr \in {"true", "false", "error"} :
          LET postErr == postRestoreTimescale(rev, connected, pr, target.ext, tsInfo)
          IN  /\ connected \/ pr = "true"
              /\ target' = IF connected /\ pr = "true"
                           THEN [target EXCEPT !.restoring = FALSE] ELSE target
              /\ rcalls' = rcalls \o
                    (IF ~connected THEN <<>>
                     ELSE <<Call("open"), Call("timescaledb_post_restore()")>> \o
                          (IF rev = 1 /\ pr = "true"
                           THEN <<Call("read extension")>> ELSE <<>>) \o
                          <<Call("close")>>)
              /\ r_err' = DoRestoreResult(r_err, postErr)
              /\ rhist' = [rhist EXCEPT
                    !.postCalls = @ + 1,
                    !.hookQueries = IF connected THEN @ + 1 ELSE @,
                    !.postErr = postErr,
                    !.extAtReturn = target.ext]
    /\ r_pc' = "returned"
    /\ UNCHANGED <<r_deferred, tsInfo, rev, rcf, dumpside, cmdvars>>

\* another session changes the extension of the target while ts-restore runs
Interfere ==
    /\ r_pc \notin {"notStarted", "returned", "crashed"}
    /\ ~rhist.interfered
    /\ \E e \in Exts :
          /\ e # target.ext
          /\ e.TsVersion \in AvailableVersions(target)
          /\ target' = [target EXCEPT !.ext = e]
    /\ rhist' = [rhist EXCEPT !.interfered = TRUE]
    /\ UNCHANGED <<r_pc, r_err, r_deferred, tsInfo, rcalls, rev, rcf, dumpside, cmdvars>>

\* ts-restore dies: nothing deferred runs
RestoreCrash ==
    /\ r_pc \notin {"notStarted", "returned", "crashed"}
    /\ r_pc' = "crashed"
    /\ r_err' = "nil"
    /\ r_deferred' = FALSE
    /\ tsInfo' = ZeroTsInfo
    /\ UNCHANGED <<rcalls, rhist, rev, rcf, target, dumpside, cmdvars>>

Next ==
    \/ DumpStart
    \/ DumpWaitTimeout
    \/ JobsStoppedHandoff
    \/ DumpCreateInfoFile
    \/ DumpWriteInfo
    \/ DumpRoles
    \/ DumpTablespaces
    \/ DumpPgDump
    \/ CleanupHandoff
    \/ DumpWgWait
    \/ MoverConnect
    \/ MoverVersion
    \/ MoverMove
    \/ MoverProbe
    \/ MoverTick
    \/ MoverReplace
    \/ MoverCleanupDone
    \/ AdvanceTime
    \/ \E j \in JobIds : StartJob(j)
    \/ \E j \in JobIds : FinishJob(j)
    \/ Crash

Spec == Init /\ [][Next]_vars

\* ------------------------------------------- ts-dump, then ts-restore
RestoreConfigs == [DoUpdate : BOOLEAN, Jobs : {0, DefaultJobs}, Verbose : BOOLEAN]

\* a target installation, with the extension it may carry from its template
Targets ==
    {t \in [ext : Exts \cup {NoExt}, restoring : {FALSE},
            defaultVersion : TargetVersions] :
        t.ext = NoExt \/ t.ext.TsVersion \in AvailableVersions(t)}

\* what an earlier run may have left where the dump directory goes
LeftoverDirs ==
    {NoDir, GarbageFile,
     [kind |-> "json", obj |-> {<<"TsInfoVersion", "str", "0">>,
                                <<"TsVersion", "str", VersionString(1)>>,
                                <<"TsSchema", "str", "public">>}]} \cup
    {Encode([TsInfoVersion |-> n, TsVersion |-> VersionString(1),
             TsSchema |-> "public"]) : n \in InfoVersions \ {0}}

InitRestore ==
    /\ cf \in {c \in Configs : /\ ~c.DumpPauseJobs /\ c.Jobs = DefaultJobs
                               /\ c.DumpRoles /\ c.DumpTablespaces}
    /\ tsMajorVersion \in TargetVersions
    /\ db = [j \in JobIds |-> FirstStart]
    /\ now = 0
    /\ d_pc = "start"
    /\ d_err = "nil"
    /\ deferred = FALSE
    /\ timerStart = 0
    /\ calls = <<>>
    /\ m_pc = "notStarted"
    /\ sql = NoSQL
    /\ movedJobs = <<>>
    /\ runningJobs = TRUE
    /\ todo = {}
    /\ tickPending = FALSE
    /\ hist = NoHist
    /\ tsSchema \in Schemas
    /\ infoFile \in LeftoverDirs
    /\ rev \in {1, 2}
    /\ rcf \in {c \in RestoreConfigs : rev = 1 => ~c.DoUpdate}
    /\ target \in Targets
    /\ RestoreNotStarted
    /\ RunIdle

NextRestore ==
    \/ DumpStart
    \/ DumpCreateInfoFile
    \/ DumpWriteInfo
    \/ DumpRoles
    \/ DumpTablespaces
    \/ DumpPgDump
    \/ Crash
    \/ RestoreParseInfo
    \/ RestoreDropExt
    \/ RestoreCreateExt
    \/ RestoreConfirmExt
    \/ RestorePreHook
    \/ RestoreGetVersion
    \/ RestoreMakeTOC
    \/ RestorePreData
    \/ RestoreCatalogData
    \/ RestoreOtherData
    \/ RestorePostData
    \/ RestoreUpdate
    \/ RestoreUpdateVerify
    \/ RestorePostRestore
    \/ Interfere
    \/ RestoreCrash

SpecRestore == InitRestore /\ [][NextRestore]_vars

\* ------------------------------- one call of RunCommandAndFilterOutput
progvars == <<dumpside, rvars>>

\* lines 217-234: cmd.Start(), then the goroutine that reads stdout
RunStart ==
    /\ run.pc = "start"
    /\ \/ /\ run' = [run EXCEPT !.pc = "returned", !.err = "cmd.Start() failed"]
          /\ UNCHANGED proc
       \/ /\ run' = [run EXCEPT !.pc = "readStderr", !.gpc = "reading",
                                 !.started = TRUE]
          /\ proc' = [proc EXCEPT !.state = "running"]
    /\ UNCHANGED <<pipes, sink, progvars>>

\* the subprocess writes its next line to stream s; the write blocks while
\* the pipe is full
ProcWrite(s) ==
    /\ proc.state = "running"
    /\ proc[s] # <<>>
    /\ Len(pipes[s]) < PipeCap
    /\ pipes' = [pipes EXCEPT ![s] = Append(@, Head(proc[s]))]
    /\ proc' = [proc EXCEPT ![s] = Tail(@)]
    /\ UNCHANGED <<run, sink, progvars>>

ProcWriteStdout == ProcWrite("out")

ProcWriteStderr == ProcWrite("err")

\* the subprocess exits once it has written everything, or is killed
ProcExit ==
    /\ proc.state = "running"
    /\ \/ /\ proc.out = <<>> /\ proc.err = <<>>
          /\ \E c \in {0, 1} : proc' = [proc EXCEPT !.state = "exited", !.code = c]
       \/ proc' = [state |-> "exited", out |-> <<>>, err |-> <<>>, code |-> 1]
    /\ UNCHANGED <<run, pipes, sink, progvars>>

\* end of stream: the pipe is empty and its write end is closed
AtEOF(s) == pipes[s] = <<>> /\ proc.state = "exited"

\* lines 231-234 and 248-272: one Scan() of the goroutine reading stdout.  A
\* line that is too long ends the loop and scanIn.Err() is not looked at; a
\* failed Fprintln ends the loop with its error
ReadStdout ==
    /\ run.gpc = "reading"
    /\ \/ /\ AtEOF("out")
          /\ run' = [run EXCEPT !.gpc = "done"]
          /\ UNCHANGED <<pipes, sink>>
       \/ /\ pipes.out # <<>>
          /\ pipes' = [pipes EXCEPT !.out = Tail(@)]
          /\ LET line == Head(pipes.out)
                 step == ScanStep(line, run.filters)
                 w == Write(sink, Forward(line, run.prependTime))
             IN  \/ /\ step = "tooLong"
                    /\ run' = [run EXCEPT !.gpc = "done", !.readFailed = TRUE]
                    /\ UNCHANGED sink
                 \/ /\ step = "filtered"
                    /\ UNCHANGED <<run, sink>>
                 \/ /\ step = "forward"
                    /\ sink' = w
                    /\ UNCHANGED run
                 \/ /\ step = "forward"
                    /\ w.dst # sink.dst
                    /\ run' = [run EXCEPT !.gpc = "done", !.forwardFailed = TRUE,
                                          !.errStdout = "write failed"]
                    /\ UNCHANGED sink
    /\ UNCHANGED <<proc, progvars>>

\* line 236 and 248-272: one Scan() of the caller's goroutine reading stderr
ReadStderr ==
    /\ run.pc = "readStderr"
    /\ \/ /\ AtEOF("err")
          /\ run' = [run EXCEPT !.pc = "wgWait"]
          /\ UNCHANGED pipes
       \/ /\ pipes.err # <<>>
          /\ pipes' = [pipes EXCEPT !.err = Tail(@)]
          /\ LET step == ScanStep(Head(pipes.err), run.filters)
             IN  \/ /\ step = "tooLong"
                    /\ run' = [run EXCEPT !.pc = "wgWait", !.readFailed = TRUE]
                 \/ /\ step \in {"filtered", "forward"}
                    /\ UNCHANGED run
                 \/ /\ step = "forward"
                    /\ run' = [run EXCEPT !.pc = "wgWait", !.forwardFailed = TRUE,
                                          !.errStderr = "write failed"]
    /\ UNCHANGED <<proc, sink, progvars>>

\* line 237: wg.Wait()
RunWgWait ==
    /\ run.pc = "wgWait"
    /\ run.gpc = "done"
    /\ run' = [run EXCEPT !.pc = "cmdWait"]
    /\ UNCHANGED <<proc, pipes, sink, progvars>>

\* line 238: what cmd.Wait() waits for
Waited_nothing(p) == TRUE

Waited(p) == p.state = "exited"

\* lines 238-245: cmd.Wait() returns once the subprocess has exited and
\* closes the pipes; then the return
RunCmdWait ==
    /\ run.pc = "cmdWait"
    /\ Waited(proc)
    /\ run' = [run EXCEPT !.pc = "returned",
                          !.err = RunResult(proc.code, run.errStdout, run.errStderr)]
    /\ pipes' = NoPipes
    /\ UNCHANGED <<proc, sink, progvars>>

\* the lines of a pg_restore --list, of a pg_restore or pg_dump run
OutLines == {"1 a", "2 " \o ExtensionComment, "3 COMMENT - EXTENSION x", LongLine}

ErrLines == {"w", LongLine}

SeqsUpTo(S, n) == UNION {[1..k -> S] : k \in 0..n}

\* a subprocess that has not been started, with what it is going to write
Subprocesses ==
    [state : {"notStarted"}, out : SeqsUpTo(OutLines, MaxLines),
     err : SeqsUpTo(ErrLines, MaxErrLines), code : {0}]

\* restore.go lines 344-367: DoRestore calls RunCommandAndFilterOutput for
\* the next pass when the call for the pass before has returned nil; a
\* subprocess that call left running keeps running beside the new one
RunNextPass ==
    /\ run.pc = "returned" /\ run.caller = "pass"
    /\ run.err = "nil"
    /\ run.pass < NumPasses
    /\ proc' \in Subprocesses
    /\ run' = [NoRun EXCEPT !.pc = "start", !.caller = "pass",
                            !.prependTime = TRUE, !.listing = proc'.out,
                            !.pass = run.pass + 1,
                            !.orphans = run.orphans +
                                IF proc.state = "running" THEN 1 ELSE 0]
    /\ pipes' = NoPipes
    /\ sink' = NoSink
    /\ UNCHANGED progvars

\* the two ways the repository calls it: makeRestoreTOC (a bufio.Writer over
\* the TOC file, no time, the extension-comment filter) and the passes and
\* pg_dump (os.Stdout, with the time, no filter)
RunCalls ==
    {[NoRun EXCEPT !.pc = "start", !.caller = "makeRestoreTOC",
                   !.filters = {ExtensionComment}],
     [NoRun EXCEPT !.pc = "start", !.caller = "pass", !.prependTime = TRUE,
                   !.pass = 1]}

InitRun ==
    /\ cf = [DumpPauseJobs |-> FALSE, Jobs |-> DefaultJobs, DumpPauseUDAs |-> TRUE,
             DumpJobFinishTimeout |-> LongTimeout, DumpRoles |-> TRUE,
             DumpTablespaces |-> TRUE]
    /\ tsMajorVersion = 2
    /\ db = [j \in JobIds |-> FirstStart]
    /\ now = 0
    /\ d_pc = "start"
    /\ d_err = "nil"
    /\ deferred = FALSE
    /\ timerStart = 0
    /\ calls = <<>>
    /\ m_pc = "notStarted"
    /\ sql = NoSQL
    /\ movedJobs = <<>>
    /\ runningJobs = TRUE
    /\ todo = {}
    /\ tickPending = FALSE
    /\ hist = NoHist
    /\ tsSchema = "public"
    /\ infoFile = NoDir
    /\ rev = 2
    /\ rcf = [DoUpdate |-> FALSE, Jobs |-> DefaultJobs, Verbose |-> FALSE]
    /\ target = [ext |-> NoExt, restoring |-> FALSE, defaultVersion |-> 1]
    /\ RestoreNotStarted
    /\ proc \in Subprocesses
    /\ run \in {[c EXCEPT !.listing = proc.out] : c \in RunCalls}
    /\ pipes = NoPipes
    /\ sink = [kind |-> IF run.caller = "makeRestoreTOC" THEN "bufio" ELSE "file",
               buf |-> "", dst |-> ""]

NextRun ==
    \/ RunStart
    \/ ProcWriteStdout
    \/ ProcWriteStderr
    \/ ProcExit
    \/ ReadStdout
    \/ ReadStderr
    \/ RunWgWait
    \/ RunCmdWait
    \/ RunNextPass

SpecRun == InitRun /\ [][NextRun]_vars

\* ------------------------------------------------------------ properties
MoverStarted == m_pc # "notStarted"

\* C1: when DoDump has started the Job Mover, DoDump has returned only after
\* the cleanup signal was taken by the mover and the mover goroutine exited
C1_StopBeforeReturn ==
    (d_pc = "returned" /\ deferred) => (hist.cleanupRan /\ m_pc = "exited")

C1_Witness ==
    /\ d_pc = "returned" /\ deferred /\ d_err = "nil"
    /\ hist.cleanupRan /\ m_pc = "exited"

\* C2: the jobs-stopped signal is issued at most once in the life of a mover,
\* and no probe is evaluated after it was issued
C2_SignalOnce == hist.stopSignals <= 1 /\ ~hist.probeAfterStop

C2_Witness ==
    hist.stopSignals = 1 /\ hist.probeSkipped /\ m_pc = "select" /\ ~runningJobs

\* C3: an entry of the ledger keeps its recorded original start for as long
\* as the mover lives, whatever it detects later
C3_FirstSeenWins ==
    [][\A j \in DOMAIN movedJobs :
          m_pc' \notin {"exited", "crashed"} =>
             (j \in DOMAIN movedJobs' /\ movedJobs'[j] = movedJobs[j])]_vars

C3_Witness ==
    hist.redetected /\ \E j \in DOMAIN movedJobs : movedJobs[j] = FirstStart

\* C4: a cleanup pass that has ended has replayed every entry of the ledger,
\* and a replay sets an entry whose original start is still ahead to exactly
\* that start, an entry whose original start has passed to a time strictly
\* after the current time
C4_EveryEntryReplayed ==
    /\ (m_pc = "exited" /\ hist.cleanupRan) => hist.attempted = hist.ledgerAtCleanup
    /\ hist.lastReplay # <<>> =>
          LET origStart == hist.lastReplay[1]
              at == hist.lastReplay[2]
              to == hist.lastReplay[3]
          IN  /\ origStart > at => to = origStart
              /\ origStart < at => to > at

\* C5: a failed restore of one entry does not end the cleanup pass: when the
\* mover exits from a cleanup in which a restore failed, it has still
\* attempted every entry of the ledger
C5_CleanupGoesOnAfterFailure ==
    (m_pc = "exited" /\ hist.cleanupRan /\ hist.aborted) =>
        hist.attempted = hist.ledgerAtCleanup

\* C6: after the wait has timed out DoDump only returns, with the timeout
\* error: no pg_dump, no pg_dumpall, no dump directory, no info file
C6_TimeoutIsHardFailure ==
    hist.timedOut =>
        /\ calls = <<>>
        /\ d_pc \in {"stopSend", "wgWait", "returned", "crashed"}
        /\ d_pc # "crashed" => d_err = "timed out waiting for jobs"

C6_Witness ==
    hist.timedOut /\ d_pc = "returned" /\ d_err = "timed out waiting for jobs"

\* C7: a mover that has aborted early does not make DoDump fail: with a
\* positive timeout DoDump never times out on a wait that began or went on
\* after the mover had aborted and while no job was executing
C7_AbortedMoverDoesNotFailDump ==
    ~(cf.DumpJobFinishTimeout > 0 /\ hist.timedOutIdle)

\* C8: with a negative DumpJobFinishTimeout DoDump never waits for the
\* jobs-stopped signal and the mover never stops ticking: it is never parked
\* on the send of a signal that nobody will receive
C8_NoWaitMoverKeepsTicking ==
    (MoverStarted /\ cf.DumpJobFinishTimeout < 0) =>
        (d_pc # "wait" /\ m_pc # "sendStopped")

\* C9: in every state, crashed ones included, a job the mover has rescheduled
\* has a finite next start at most 20 minutes after that reschedule
C9_MovedJobsStayScheduled ==
    \A j \in DOMAIN hist.moverSet :
        /\ ~Flagged(db[j])
        /\ db[j] <= hist.moverSet[j] + MoveBase + RandomSpan

C9_Witness ==
    hist.crashed /\ ~hist.cleanupRan /\ hist.moverSet # <<>>

\* C10: for a major version other than 1 and 2 the dialect selection returns
\* the unknown-version error with three empty queries, and the mover exits
\* without having run a move, probe or replace query
C10_UnknownVersionNoQueries ==
    /\ \A v \in (0..MaxVersion) \ {1, 2} : \A p \in BOOLEAN :
          compressionJobMoverSQL(v, p) =
             [runningJobsSQL |-> EmptySQL, moveSQL |-> EmptySQL,
              replaceJobSQL |-> EmptySQL, err |-> "unknown Timescale major version"]
    /\ tsMajorVersion \notin {1, 2} =>
          /\ ~hist.queried
          /\ m_pc \in {"notStarted", "connect", "version", "exited", "crashed"}
          /\ sql # NoSQL =>
                /\ sql.err = "unknown Timescale major version"
                /\ sql.moveSQL = EmptySQL
                /\ m_pc = "exited"

C10_Witness ==
    /\ tsMajorVersion \notin {1, 2}
    /\ sql.err = "unknown Timescale major version"
    /\ m_pc = "exited" /\ hist.aborted /\ ~hist.queried

\* ------------------------------------------------- properties, DoRestore
\* the pass a pg_restore command runs, read from its arguments; 0 for none
PassOf(c) ==
    LET has(a) == \E i \in DOMAIN c.args : c.args[i] = a
    IN  IF has("--section=pre-data") THEN 1
        ELSE IF has("--schema=_timescaledb_catalog") THEN 2
        ELSE IF has("--exclude-schema=_timescaledb_catalog") THEN 3
        ELSE IF has("--section=post-data") THEN 4
        ELSE 0

\* the passes started so far, in the order they were started
PassesStarted ==
    LET RECURSIVE walk(_)
        walk(q) == IF q = <<>> THEN <<>>
                   ELSE IF PassOf(Head(q)) > 0
                        THEN <<PassOf(Head(q))>> \o walk(Tail(q))
                        ELSE walk(Tail(q))
    IN  walk(rcalls)

\* the errors DoRestore returns for a failure of pass k
PassErrors(k) ==
    {Wrap(RestorePasses[k].label, c) : c \in {"cmd.Run() failed", "cmd.Start() failed"}}

\* C11: the passes are started in the order pre-data, catalog data, other
\* data, post-data, each at most once; with the error of pass k DoRestore is
\* returning or has returned, pass k was the last one tried and no later
\* pass has been started
C11_PassesInOrder ==
    /\ \A i \in DOMAIN PassesStarted : PassesStarted[i] = i
    /\ \A k \in 1..4 :
          r_err \in PassErrors(k) =>
             /\ r_pc \in {"postRestore", "returned"}
             /\ Len(PassesStarted) \in {k - 1, k}

C11_Witness ==
    /\ r_pc = "returned"
    /\ r_err \in PassErrors(2)
    /\ PassesStarted = <<1, 2>>

\* C12: once the pre-restore step has succeeded, postRestoreTimescale is
\* called exactly once before DoRestore returns, whatever failed in between,
\* and it issues the post-restore hook exactly once on the connection it opens
C12_PostRestoreOnce ==
    /\ rhist.postCalls <= 1
    /\ rhist.hookQueries <= 1
    /\ (r_pc = "returned" /\ rhist.preHook = "true") =>
          /\ rhist.postCalls = 1
          /\ rhist.hookQueries = IF rhist.postErr = "connection failed" THEN 0 ELSE 1

C12_Witness ==
    /\ r_pc = "returned"
    /\ rhist.preHook = "true"
    /\ r_err = "could not find pg_restore"
    /\ rhist.postCalls = 1
    /\ rhist.hookQueries = 1

\* C13: DoRestore returns an error when the pre-restore hook or the
\* post-restore hook returned false or its call failed
C13_HookFailureIsAnError ==
    r_pc = "returned" =>
        /\ rhist.preHook \in {"false", "error"} => r_err # "nil"
        /\ rhist.postErr \in {"post restore function failed", "query failed"} =>
              r_err # "nil"

\* C14: a DoRestore that has run its post-restore hook does not return
\* without an error when the extension of the target, at the end, is not in
\* the schema and at the version of the metadata file
C14_FinalConfirmation ==
    (r_pc = "returned" /\ rhist.hookQueries = 1 /\
     rhist.postErr \notin {"query failed", "post restore function failed"} /\
     rhist.extAtReturn # [TsVersion |-> tsInfo.TsVersion, TsSchema |-> tsInfo.TsSchema])
        => r_err # "nil"

\* position of the first call of op in the log, 0 when there is none
FirstCall(op) ==
    IF \E i \in DOMAIN rcalls : rcalls[i].op = op
    THEN CHOOSE i \in DOMAIN rcalls :
            /\ rcalls[i].op = op
            /\ \A j \in 1..(i - 1) : rcalls[j].op # op
    ELSE 0

\* C15: with the update enabled the post-restore hook is called after the
\* four passes and before the ALTER EXTENSION UPDATE statement is issued
C15_PostRestoreBeforeUpdate ==
    FirstCall("ALTER EXTENSION UPDATE") > 0 =>
        /\ FirstCall("timescaledb_post_restore()") > 0
        /\ FirstCall("timescaledb_post_restore()") < FirstCall("ALTER EXTENSION UPDATE")
        /\ PassesStarted = <<1, 2, 3, 4>>

\* C16: when the verification of doUpdate found the installed version other
\* than the default version, DoRestore is returning or has returned the
\* update error and no read-back of the extension follows; the verification
\* is made on a connection opened after the connection of the ALTER EXTENSION
\* UPDATE was closed
C16_UpdateIsVerified ==
    LET upd == FirstCall("ALTER EXTENSION UPDATE")
        ver == FirstCall("installed_version = default_version")
    IN  /\ rhist.updateSeen = "other" =>
              /\ r_pc \in {"postRestore", "returned", "crashed"}
              /\ r_pc # "crashed" => r_err # "nil"
              /\ \A i \in DOMAIN rcalls : i > ver => rcalls[i].op # "read extension"
        /\ ver > 0 =>
              /\ upd > 0
              /\ rcalls[upd + 1].op = "close"
              /\ rcalls[ver - 1].op = "open"
              /\ upd + 1 < ver - 1

C16_Witness ==
    /\ rhist.updateSeen = "other"
    /\ r_pc = "returned"
    /\ r_err = Wrap("pg_restore run failed while updating extension",
                    "TimescaleDB extension was not updated to the default version")

\* a metadata file of a format version other than the one DoDump writes
WrongFormatVersion(file) ==
    /\ file.kind = "json"
    /\ \E m \in file.obj :
          m[1] = "TsInfoVersion" /\ m[3] # ToString(ZeroTsInfo.TsInfoVersion)

\* C17: on a metadata file of the wrong format version DoRestore fails in the
\* decode and issues no statement against the target database
C17_WrongFormatVersionFails ==
    (r_pc # "notStarted" /\ WrongFormatVersion(infoFile)) =>
        \A i \in DOMAIN rcalls :
            rcalls[i].op \notin {"DROP EXTENSION", "CREATE EXTENSION"}

\* a metadata file that is missing, or is not the JSON of a util.TsInfo
Unreadable(file) ==
    \/ file.kind # "json"
    \/ \E m \in file.obj :
          \/ m[1] = "TsInfoVersion" /\ m[2] # "num"
          \/ m[1] \in {"TsVersion", "TsSchema"} /\ m[2] # "str"

\* C18: on a metadata file that cannot be opened or decoded DoRestore has
\* returned an error at once: no statement was sent to the target database,
\* no pg_restore was run and nothing was deferred
C18_UnreadableInfoStopsRestore ==
    (r_pc # "notStarted" /\ Unreadable(infoFile)) =>
        /\ r_pc = "returned"
        /\ r_err \in {"failed to open version file", "failed to decode tsInfo JSON"}
        /\ rcalls = <<>>
        /\ rhist = NoRHist

C18_Witness ==
    /\ r_pc = "returned"
    /\ infoFile.kind = "json" /\ Unreadable(infoFile)
    /\ r_err = "failed to decode tsInfo JSON"
    /\ rcalls = <<>>

\* C19: when DoDump has succeeded and a DoRestore without update has then
\* succeeded, its post-restore step included, the extension of the target
\* is, at that return, at the version and in the schema the dumped database
\* had
C19_RestoredAsDumped ==
    (d_pc = "returned" /\ d_err = "nil" /\ ~rcf.DoUpdate /\
     r_pc = "returned" /\ r_err = "nil" /\ rhist.postErr = "nil")
        => rhist.extAtReturn = [TsVersion |-> VersionString(tsMajorVersion),
                                TsSchema |-> tsSchema]

\* ------------------------------------------- properties, DoDump's phases
\* the commands of DoDump that write the dump
DumpCommands == {"pg_dumpall roles", "pg_dumpall tablespaces", "pg_dump"}

\* the commands DoDump has issued so far, calls without the file operations
DumpsStarted == SelectSeq(calls, LAMBDA c : c \in DumpCommands)

\* a occurs in q before position i
Before(q, a, i) == \E k \in 1..(i - 1) : q[k] = a

\* C21: pg_dumpall and pg_dump are invoked only after the dump directory was
\* created and the metadata file written; when the dump directory is already
\* there or the metadata file cannot be created, DoDump returns an error, no
\* pg_dumpall or pg_dump is invoked and a directory that was there is left as
\* it was
C21_InfoFileBeforeDump ==
    /\ [](/\ \A i \in DOMAIN calls :
                calls[i] \in DumpCommands =>
                    /\ Before(calls, "mkdir", i)
                    /\ Before(calls, "create info file", i)
                    /\ Before(calls, "write info", i)
          /\ d_err = "error with dump file creation" =>
                /\ DumpsStarted = <<>>
                /\ d_pc \in {"stopSend", "wgWait", "returned"})
    /\ [][(d_pc \in {"start", "lookPath"} /\ infoFile # NoDir) =>
            /\ infoFile' = infoFile
            /\ d_pc = "lookPath" =>
                  /\ d_pc' \in {"lookPath", "stopSend", "returned", "crashed"}
                  /\ d_pc' \in {"stopSend", "returned"} => d_err' # "nil"]_vars

C21_Witness ==
    /\ d_pc = "returned"
    /\ d_err = "error with dump file creation"
    /\ infoFile = GarbageFile
    /\ calls = <<"pg_dump --version">>

\* ------------------------------------------- properties, the four passes
\* strings.HasPrefix
HasPrefix(a, prefix) ==
    Len(a) >= Len(prefix) /\ SubSeq(a, 1, Len(prefix)) = prefix

\* the --jobs arguments of a command
JobsArgs(c) == {c.args[i] : i \in {n \in DOMAIN c.args : HasPrefix(c.args[n], "--jobs")}}

\* C22: the pre-data pass and the catalog data pass carry no --jobs argument;
\* the user-data pass and the post-data pass carry --jobs=N exactly when
\* Jobs = N > 0, and with Jobs = 0 no pass carries one
C22_JobsOnlyOnParallelPasses ==
    \A i \in DOMAIN rcalls :
        LET c == rcalls[i]
        IN  /\ PassOf(c) \in {1, 2} => JobsArgs(c) = {}
            /\ PassOf(c) \in {3, 4} =>
                  JobsArgs(c) = IF rcf.Jobs > 0
                                THEN {"--jobs=" \o ToString(rcf.Jobs)} ELSE {}

C22_Witness ==
    /\ rcf.Jobs > 0
    /\ PassesStarted = <<1, 2, 3, 4>>
    /\ r_pc = "returned" /\ r_err = "nil"
    /\ \E i \in DOMAIN rcalls : PassOf(rcalls[i]) = 4 /\ JobsArgs(rcalls[i]) # {}

\* ------------------------- properties, util.RunCommandAndFilterOutput
\* the listing without the lines that contain the marker, as a file
RECURSIVE FilteredListing(_)
FilteredListing(lines) ==
    IF lines = <<>> THEN ""
    ELSE (IF Contains(Head(lines), ExtensionComment) THEN ""
          ELSE Head(lines) \o "\n") \o FilteredListing(Tail(lines))

\* C23: the table-of-contents file makeRestoreTOC leaves for the four passes
\* holds exactly the lines of the pg_restore listing, in their order, without
\* the lines that contain 'COMMENT - EXTENSION timescaledb'
C23_TOCIsFilteredListing ==
    (/\ run.caller = "makeRestoreTOC"
     /\ run.pc = "returned" /\ run.err = "nil" /\ ~run.readFailed) =>
        sink.dst = FilteredListing(run.listing)

\* C24: while the subprocess is alive both of its streams are being drained:
\* it never stands at a write to a full pipe that nobody reads any more
C24_StreamsDrained ==
    /\ (proc.state = "running" /\ proc.out # <<>> /\ Len(pipes.out) >= PipeCap) =>
            run.gpc = "reading"
    /\ (proc.state = "running" /\ proc.err # <<>> /\ Len(pipes.err) >= PipeCap) =>
            run.pc = "readStderr"

\* C25: RunCommandAndFilterOutput returns an error of its own for a process
\* that did not start, for a stream that could not be read or forwarded and
\* for a process that exited nonzero or abnormally, and returns nil only
\* when none of the three happened
C25_ThreeDistinctErrors ==
    run.pc = "returned" =>
        /\ ~run.started => run.err = "cmd.Start() failed"
        /\ (run.started /\ proc.code # 0) => run.err = "cmd.Run() failed"
        /\ (run.started /\ proc.code = 0 /\ (run.readFailed \/ run.forwardFailed)) =>
                run.err = "failed to capture output"
        /\ run.err = "nil" <=>
                (run.started /\ proc.code = 0 /\ ~run.readFailed /\ ~run.forwardFailed)

\* ------------------------------------- properties, DoDump and the mover
\* C26: the mover is started exactly when DumpPauseJobs is set and Jobs > 0;
\* in a dump that is not parallel or does not pause, no job is rescheduled,
\* no query of the mover runs and DoDump never waits for the jobs-stopped
\* signal
C26_MoverOnlyForParallelPausing ==
    /\ MoverStarted => (cf.DumpPauseJobs /\ cf.Jobs > 0)
    /\ (cf.DumpPauseJobs /\ cf.Jobs > 0 /\ d_pc \notin {"start", "crashed"}) =>
            MoverStarted
    /\ ~(cf.DumpPauseJobs /\ cf.Jobs > 0) =>
            /\ hist.moverSet = <<>> /\ movedJobs = <<>> /\ ~hist.queried
            /\ d_pc # "wait" /\ ~deferred

C26_Witness ==
    /\ cf.DumpPauseJobs /\ cf.Jobs = 0
    /\ d_pc = "returned" /\ d_err = "nil"
    /\ m_pc = "notStarted"
    /\ DumpsStarted # <<>>

\* the job types the claim gives for a major version and a pause-UDAs flag
MonitoredTypes(v, pauseUDAs) ==
    IF v = 2 /\ pauseUDAs THEN {"compress", "reorder", "uda"}
    ELSE {"compress", "reorder"}

\* C27: the move query and the running-jobs probe select the same job types:
\* compression and reorder jobs for major version 1 whatever the pause-UDAs
\* flag, and for major version 2 those plus user-defined actions exactly
\* when the flag is set; no job of another type is ever rescheduled
C27_MonitoredJobTypes ==
    /\ \A v \in {1, 2} : \A p \in BOOLEAN :
          LET q == compressionJobMoverSQL(v, p)
          IN  /\ q.err = "nil"
              /\ q.moveSQL.types = MonitoredTypes(v, p)
              /\ q.runningJobsSQL.types = q.moveSQL.types
    /\ \A j \in DOMAIN movedJobs \cup DOMAIN hist.moverSet :
          JobType(j) \in MonitoredTypes(tsMajorVersion, cf.DumpPauseUDAs)
    /\ (sql # NoSQL /\ sql.err = "nil") =>
          /\ sql.moveSQL.types = MonitoredTypes(tsMajorVersion, cf.DumpPauseUDAs)
          /\ sql.runningJobsSQL.types = sql.moveSQL.types

C27_Witness ==
    /\ tsMajorVersion = 2 /\ ~cf.DumpPauseUDAs
    /\ \E j \in DOMAIN movedJobs : JobType(j) = "compress"
    /\ \E j \in JobIds \ DOMAIN movedJobs :
          JobType(j) = "uda" /\ db[j] = FirstStart /\ db[j] < now + DangerWindow
    /\ m_pc = "select"

\* the dump commands of a configuration, in the order of the claim
PhasesOf(c) ==
    (IF c.DumpRoles THEN <<"pg_dumpall roles">> ELSE <<>>) \o
    (IF c.DumpTablespaces THEN <<"pg_dumpall tablespaces">> ELSE <<>>) \o
    <<"pg_dump">>

IsPrefix(p, q) == Len(p) <= Len(q) /\ SubSeq(q, 1, Len(p)) = p

\* C28: DoDump runs the roles dump (only if DumpRoles), the tablespaces dump
\* (only if DumpTablespaces) and pg_dump in that order; when a phase fails
\* DoDump returns the error of that phase and no later phase is run
C28_DumpPhasesInOrder ==
    /\ IsPrefix(DumpsStarted, PhasesOf(cf))
    /\ \A f \in {<<"Error dumping roles", "pg_dumpall roles">>,
                  <<"Error dumping tablespaces", "pg_dumpall tablespaces">>,
                  <<"pg_dump run failed", "pg_dump">>} :
          d_err = f[1] =>
             /\ DumpsStarted # <<>>
             /\ DumpsStarted[Len(DumpsStarted)] = f[2]
             /\ d_pc \in {"stopSend", "wgWait", "returned"}
    /\ (d_pc = "returned" /\ d_err = "nil") => DumpsStarted = PhasesOf(cf)

C28_Witness ==
    /\ cf.DumpRoles /\ cf.DumpTablespaces
    /\ d_pc = "returned" /\ d_err = "Error dumping tablespaces"
    /\ DumpsStarted = <<"pg_dumpall roles", "pg_dumpall tablespaces">>

\* C29: DoDump always returns: the orchestrator never stands at the send of
\* the cleanup signal while the mover can no longer take it, because it has
\* exited or because it is itself parked at the send of the jobs-stopped
\* signal that the orchestrator no longer receives
C29_DoDumpAlwaysReturns ==
    d_pc = "stopSend" => m_pc \notin {"exited", "sendStopped"}

\* C30: with the mover started and DumpJobFinishTimeout >= 0, DoDump goes on
\* to the dump directory, pg_dumpall and pg_dump only after it has received
\* the jobs-stopped signal, and the mover sends that signal only after a
\* probe that returned no monitored job flagged as executing
C30_DumpAfterJobsStopped ==
    /\ []((MoverStarted /\ cf.DumpJobFinishTimeout >= 0 /\ calls # <<>>) =>
            (hist.stopSignals = 1 /\ ~hist.timedOut /\ m_pc # "sendStopped"))
    /\ [][/\ (m_pc' = "sendStopped" /\ m_pc # "sendStopped") =>
               (m_pc = "probe" /\ RunningRows(sql.runningJobsSQL, db) = {})
          /\ (d_pc = "wait" /\ d_pc' \in {"lookPath", "writeInfo"}) =>
               (m_pc = "sendStopped" /\ m_pc' = "select")]_vars

C30_Witness ==
    /\ MoverStarted /\ cf.DumpJobFinishTimeout >= 0
    /\ d_pc = "returned" /\ d_err = "nil"
    /\ DumpsStarted = PhasesOf(cf)
    /\ hist.stopSignals = 1

\* C31: a completed detection-and-move of a live mover leaves every
\* monitored job that is not executing with a next start at least the danger
\* window (10 minutes) after the time of that tick, and a job moved by a
\* mover that is still ticking has not reached its start
C31_NoMonitoredJobInWindow ==
    /\ [][(m_pc = "move" /\ m_pc' \in {"probe", "select"}) =>
            \A j \in JobIds :
                (JobType(j) \in sql.moveSQL.types /\ ~Flagged(db'[j])) =>
                    db'[j] >= now + DangerWindow]_vars
    /\ [](m_pc \in {"move", "probe", "select"} =>
            \A j \in DOMAIN hist.moverSet :
                /\ db[j] >= hist.moverSet[j] + MoveBase
                /\ db[j] > now)

C31_Witness ==
    /\ m_pc = "probe" /\ now > 0
    /\ \E j \in DOMAIN hist.moverSet :
          hist.moverSet[j] = now /\ db[j] >= now + MoveBase
    /\ \E j \in JobIds : JobType(j) \notin sql.moveSQL.types /\ db[j] <= now

\* C32: every pass of the mover, the first one included, runs
\* detection-and-move, then the probe (only while no jobs-stopped signal was
\* issued), then stands at the tick-or-cancel select; the cleanup signal is
\* taken at that select only, never in the middle of a pass
C32_PassOrder ==
    [][m_pc' # m_pc =>
        /\ m_pc' = "move" => m_pc \in {"version", "select"}
        /\ m_pc = "version" => m_pc' \in {"move", "exited", "crashed"}
        /\ m_pc = "move" => m_pc' \in {"probe", "select", "exited", "crashed"}
        /\ m_pc' = "probe" =>
              (m_pc = "move" /\ runningJobs /\ hist.stopSignals = 0)
        /\ (m_pc = "move" /\ m_pc' = "select") =>
              (~runningJobs /\ hist.stopSignals = 1)
        /\ m_pc' = "sendStopped" => m_pc = "probe"
        /\ m_pc' = "select" => m_pc \in {"move", "probe", "sendStopped"}
        /\ m_pc' = "cleanup" => (m_pc = "select" /\ d_pc = "stopSend")]_vars

C32_Witness ==
    /\ m_pc = "cleanup" /\ hist.cleanupRan
    /\ hist.stopSignals = 1 /\ hist.probeSkipped
    /\ todo # {}

\* C33: at most one pg_restore pass subprocess is alive at any time: the
\* call for pass k+1 is made only when the subprocess of pass k has exited
\* and both readers of its output have finished
C33_OnePassAlive ==
    /\ [](run.orphans = 0)
    /\ [][run.pass' = run.pass + 1 =>
            /\ proc.state = "exited"
            /\ run.gpc = "done"
            /\ run.pc = "returned"]_vars

C33_Witness ==
    /\ run.pass = NumPasses /\ proc.state = "running"
    /\ run.gpc = "reading" /\ run.pc = "readStderr"
    /\ pipes.out # <<>> /\ pipes.err # <<>>

\* the calls made so far with operation op
CallsOf(op) == {i \in DOMAIN rcalls : rcalls[i].op = op}

\* C34: the pre-restore step drops the extension on one connection, closes
\* it and issues CREATE EXTENSION with the recorded schema and version on a
\* second connection; the pre-restore hook is called only after the read-back
\* found the installed schema and version equal to the recorded ones,
\* otherwise DoRestore returns an error and neither the hook nor a pass runs
C34_CreateThenConfirmThenHook ==
    /\ [](\A i \in CallsOf("CREATE EXTENSION") :
            /\ i = 5
            /\ SubSeq(rcalls, 1, 4) =
                  <<Call("open"), Call("DROP EXTENSION"), Call("close"), Call("open")>>
            /\ rcalls[i].args = <<parseInfoFile(infoFile).info.TsSchema,
                                  parseInfoFile(infoFile).info.TsVersion>>)
    /\ [](\A i \in CallsOf("timescaledb_pre_restore()") :
            \E k \in CallsOf("read extension") : k < i)
    /\ [](\A i \in DOMAIN rcalls :
            PassOf(rcalls[i]) > 0 =>
                \E k \in CallsOf("timescaledb_pre_restore()") : k < i)
    /\ []((r_pc = "returned" /\ CallsOf("timescaledb_pre_restore()") = {}) =>
            (r_err # "nil" /\ PassesStarted = <<>>))
    /\ [][(r_pc' = "preHook" /\ r_pc # "preHook") =>
            /\ r_pc = "confirmExt"
            /\ target.ext = [TsVersion |-> tsInfo.TsVersion,
                             TsSchema |-> tsInfo.TsSchema]]_vars
    /\ [][(r_pc = "confirmExt" /\ r_pc' \notin {"preHook", "confirmExt", "crashed"}) =>
            (r_pc' = "returned" /\ r_err' # "nil")]_vars
    /\ [][(Len(rcalls') > Len(rcalls) /\
           rcalls'[Len(rcalls')  - 1].op = "timescaledb_pre_restore()") =>
            r_pc = "preHook"]_vars

C34_Witness ==
    /\ r_pc = "returned"
    /\ r_err = ConfirmExtension(target.ext, tsInfo.TsSchema, tsInfo.TsVersion)
    /\ r_err # "nil" /\ target.ext # NoExt
    /\ CallsOf("CREATE EXTENSION") # {} /\ CallsOf("read extension") # {}
    /\ CallsOf("timescaledb_pre_restore()") = {}

\* C35: when the query for the version and schema of the live extension
\* fails at dump time, DoDump returns an error, neither pg_dumpall nor
\* pg_dump is invoked and no metadata record with an empty version and
\* schema is written (the record is empty exactly when the query failed: an
\* installed extension has a version and a schema)
C35_QueryFailureStopsDump ==
    LET p == parseInfoFile(infoFile)
        emptyRecord == p.err = "nil" /\ p.info.TsVersion = "" /\ p.info.TsSchema = ""
    IN  /\ ~emptyRecord
        /\ emptyRecord => DumpsStarted = <<>>
        /\ (emptyRecord /\ d_pc = "returned") => d_err # "nil"

\* the entries a table of contents can hold: a section and the schema of
\* the object ("" for an object that is in no schema)
TOCEntries ==
    [section : {"pre-data", "data", "post-data"},
     schema : {"_timescaledb_catalog", "_timescaledb_config", "public", ""}]

\* restore.go lines 330-335, 343, 349, 359, 366: the entries a pg_restore
\* with these arguments restores: those of the sections named, in the schemas
\* named when any is, and in none of the schemas excluded
Selects(args, e) ==
    LET has(a) == \E i \in DOMAIN args : args[i] = a
        sections == {x \in {"pre-data", "data", "post-data"} : has("--section=" \o x)}
        only == {n \in {t.schema : t \in TOCEntries} : has("--schema=" \o n)}
    IN  /\ sections = {} \/ e.section \in sections
        /\ only = {} \/ e.schema \in only
        /\ ~has("--exclude-schema=" \o e.schema)

\* C36: every entry of the table of contents is selected by exactly one of
\* the four passes: no entry is ever restored by two passes, and after a
\* fully successful sequence none has been skipped
C36_PassesPartitionTOC ==
    LET by(e) == {i \in DOMAIN rcalls : PassOf(rcalls[i]) > 0 /\ Selects(rcalls[i].args, e)}
    IN  \A e \in TOCEntries :
            /\ Cardinality(by(e)) <= 1
            /\ (Len(PassesStarted) = NumPasses /\ r_err = "nil" /\ r_pc # "crashed") =>
                    Cardinality(by(e)) = 1

C36_Witness ==
    /\ r_pc = "returned" /\ r_err = "nil" /\ rcf.Jobs > 0
    /\ PassesStarted = <<1, 2, 3, 4>>
    /\ \E i \in DOMAIN rcalls :
          /\ PassOf(rcalls[i]) = 2
          /\ Selects(rcalls[i].args, [section |-> "data", schema |-> "_timescaledb_config"])

\* the statements of the pre-restore step
PreRestoreSteps == {"dropExt", "createExt", "confirmExt", "preHook"}

\* C37: when the pre-restore step fails (the drop, the create, the
\* read-back, or the hook erroring or returning false), DoRestore returns
\* that error at once: no pass is started and postRestoreTimescale is not
\* called, also when the hook has already put the database into restoring
\* mode
C37_PreRestoreFailureReturns ==
    /\ [][(r_pc \in PreRestoreSteps /\ r_err' # "nil") =>
            (r_pc' = "returned" /\ r_err = "nil" /\ rcalls' \in {rcalls, rcalls \o
                <<Call("open"), Call("timescaledb_pre_restore()"), Call("close")>>,
                rcalls \o <<Call("open"), Call("DROP EXTENSION"), Call("close")>>,
                rcalls \o <<Call("open"), CreateStmt(tsInfo.TsSchema, tsInfo.TsVersion),
                            Call("close")>>,
                rcalls \o <<Call("read extension"), Call("close")>>})]_vars
    /\ []((r_pc \notin (PreRestoreSteps \cup {"notStarted", "crashed"}) /\
            rhist.preHook # "true") =>
            /\ r_pc = "returned" /\ r_err # "nil"
            /\ PassesStarted = <<>>
            /\ \A i \in DOMAIN rcalls : rcalls[i].op # "exec"
            /\ rhist.postCalls = 0
            /\ CallsOf("timescaledb_post_restore()") = {})

C37_Witness ==
    /\ r_pc = "returned"
    /\ rhist.preHook = "false" /\ target.restoring
    /\ r_err = "TimescaleDB pre restore function failed to run"
    /\ rhist.postCalls = 0

\* C38: ALTER EXTENSION UPDATE is issued exactly when DoUpdate is set and
\* all four passes have succeeded: DoRestore goes to doUpdate from the
\* successful fourth pass when DoUpdate is set, and with DoUpdate unset or
\* after a failed pass the statement is never issued
C38_UpdateIffWanted ==
    /\ [](\A i \in CallsOf("ALTER EXTENSION UPDATE") :
            /\ rcf.DoUpdate
            /\ PassesStarted = <<1, 2, 3, 4>>
            /\ \A k \in DOMAIN rcalls : PassOf(rcalls[k]) > 0 => k < i)
    /\ []((r_pc = "returned" /\ \E k \in 1..NumPasses : r_err \in PassErrors(k)) =>
            CallsOf("ALTER EXTENSION UPDATE") = {})
    /\ [][(r_pc' = "update" /\ r_pc # "update") =>
            /\ r_pc = "postData" /\ rcf.DoUpdate
            /\ r_err' = "nil"
            /\ PassOf(rcalls'[Len(rcalls')]) = NumPasses]_vars
    /\ [][(r_pc = "postData" /\ r_pc' \notin {"postData", "crashed"} /\
           rev = 2 /\ rcf.DoUpdate /\ r_err' = "nil") => r_pc' = "update"]_vars
    /\ [][(r_pc = "update" /\ r_pc' \notin {"update", "crashed"}) =>
            \/ CallsOf("ALTER EXTENSION UPDATE")' # {}
            \/ r_err' = Wrap("pg_restore run failed while updating extension",
                             "connection failed")]_vars
    /\ [][CallsOf("ALTER EXTENSION UPDATE")' # CallsOf("ALTER EXTENSION UPDATE") =>
            r_pc = "update"]_vars

C38_Witness ==
    /\ r_pc = "returned" /\ r_err = "nil"
    /\ rcf.DoUpdate /\ rhist.updateSeen = "default"
    /\ Cardinality(CallsOf("ALTER EXTENSION UPDATE")) = 1
    /\ PassesStarted = <<1, 2, 3, 4>>
====
